---- MODULE Spec2Model ----
(***************************************************************************)
(* A model of the raytracer library (cszczepaniak/raytracer_challenge).    *)
(*                                                                         *)
(* Every object of the library is modelled as a "receiver" variable plus   *)
(* the record of the last call made on it: op (the method), arg (its       *)
(* arguments) and res (what it returned, or Panic).  Each component has a  *)
(* specification of its own (SpecXs, SpecSphere, SpecWorld, SpecLight).    *)
(*                                                                         *)
(* f64 values that are only compared (the t of an Intersection) are        *)
(* records [nan, v]: v an integer, nan the IEEE not-a-number flag.  f64    *)
(* values that are computed with (coordinates, colours, matrix entries)    *)
(* are fixed-point integers with Scale units per 1.0, rounded toward zero: *)
(* a product below the resolution is 0, as an f64 product below the        *)
(* smallest subnormal is.  A t that is computed is a record [nan, v] with  *)
(* v in fixed point.                                                       *)
(***************************************************************************)
EXTENDS Integers, Sequences, FiniteSets, TLC

VARIABLES
    xs,      \* Intersections.intersections: the Vec<Intersection> of the collection
    status,  \* of the collection: "unbuilt", "live", "moved" (into_iter took it),
             \* "panicked"
    world,   \* the World: [bodies, lights]
    sphere,  \* the Sphere a call is made on: [transform, material]
    phong,   \* the Phong material a call is made on
    op,      \* the last call
    arg,     \* its arguments
    res,     \* its result
    queue,   \* the render loop: the (row, col) items the iterator has yet to hand out
    worker,  \* each worker thread: [pc, item, color]
    lock,    \* canvas_mutex: 0 when free, else the worker that holds it
    canvas,  \* the Canvas in the mutex: [width, height, pixels]
    writes,  \* how many write_pixel calls each (col, row) has had
    progress,\* the count of the progress bar
    done,    \* for_each has returned
    lastWrite, \* of a canvas: the colour of the last write_pixel(x, y, _) made
             \* with each in-range (x, y), as the caller gave it
    pc,      \* of a computation run one loop iteration a step: where it is
    locals   \* and the values of its local variables

renderVars == <<queue, worker, lock, canvas, writes, progress, done>>
stepVars == <<lastWrite, pc, locals>>
vars == <<xs, status, world, sphere, phong, op, arg, res, renderVars, stepVars>>

\* No render loop has been started.
RenderIdle ==
    /\ queue = <<>> /\ worker = <<>> /\ lock = 0 /\ canvas = <<>>
    /\ writes = <<>> /\ progress = 0 /\ done = FALSE

\* No canvas is written to and no computation is run step by step.
StepIdle == lastWrite = <<>> /\ pc = "none" /\ locals = <<>>

\* The value of res after a call that panicked.
Panic == [panic |-> TRUE]

Range(s) == {s[i] : i \in 1..Len(s)}

RECURSIVE SeqsUpTo(_, _)
\* All sequences over S of length at most n.
SeqsUpTo(S, n) ==
    IF n = 0 THEN {<<>>}
    ELSE LET shorter == SeqsUpTo(S, n - 1)
         IN shorter \cup {Append(s, e) : s \in {q \in shorter : Len(q) = n - 1}, e \in S}

(***************************************************************************)
(* f64 as an ordered value: partial_cmp and the comparison with 0.0        *)
(***************************************************************************)
F(v) == [nan |-> FALSE, v |-> v]
NaN == [nan |-> TRUE, v |-> 0]

\* f64::partial_cmp: None when either side is NaN.
PartialCmp(a, b) ==
    IF a.nan \/ b.nan THEN "None"
    ELSE IF a.v < b.v THEN "Less"
    ELSE IF a.v = b.v THEN "Equal"
    ELSE "Greater"

\* a > 0.0 (false for NaN)
GtZero(a) == ~a.nan /\ a.v > 0

\* a <= 0.0 (false for NaN)
LeZero(a) == ~a.nan /\ a.v <= 0

\* a <= b (false when either is NaN)
FLe(a, b) == ~a.nan /\ ~b.nan /\ a.v <= b.v

(***************************************************************************)
(* f64 as a computed value: fixed point, Scale units per 1.0               *)
(***************************************************************************)
Scale == 1000
One == Scale

Abs(n) == IF n < 0 THEN -n ELSE n

\* n / d rounded toward zero, so that negation commutes with it as it does
\* with IEEE rounding.
TruncDiv(n, d) ==
    IF (n >= 0) = (d > 0) THEN Abs(n) \div Abs(d) ELSE -(Abs(n) \div Abs(d))

\* a * b
FMul(a, b) == TruncDiv(a * b, Scale)

\* a / b, b # 0
FDiv(a, b) == TruncDiv(a * Scale, b)

RECURSIVE ISqrtBetween(_, _, _)
\* The largest r in lo..hi with r * r <= n.
ISqrtBetween(n, lo, hi) ==
    IF lo >= hi THEN lo
    ELSE LET mid == (lo + hi + 1) \div 2
         IN IF mid * mid <= n THEN ISqrtBetween(n, mid, hi)
            ELSE ISqrtBetween(n, lo, mid - 1)

\* f64::sqrt, x >= 0
FSqrt(x) == ISqrtBetween(x * Scale, 0, 46340)

RECURSIVE FPow(_, _)
\* f64::powf(x, n) for a whole exponent n >= 0
FPow(x, n) ==
    IF n = 0 THEN One
    ELSE IF n % 2 = 1 THEN FMul(x, FPow(x, n - 1))
    ELSE LET half == FPow(x, n \div 2) IN FMul(half, half)

\* The f64 NaN as a component of a tuple (no number the model computes with
\* comes near it).  Infinite components are not modelled.
FNaN == -2147483647

\* a + b, a - b, a * b and a / b of components: NaN if either is NaN, and
\* 0.0 / 0.0 is NaN.
NAdd(a, b) == IF a = FNaN \/ b = FNaN THEN FNaN ELSE a + b
NSub(a, b) == IF a = FNaN \/ b = FNaN THEN FNaN ELSE a - b
NMul(a, b) == IF a = FNaN \/ b = FNaN THEN FNaN ELSE FMul(a, b)
NDiv(a, b) == IF a = FNaN \/ b = FNaN \/ (a = 0 /\ b = 0) THEN FNaN ELSE FDiv(a, b)

\* a < 0.0: false for NaN
LtZero(a) == a # FNaN /\ a < 0

\* a <= 0.0: false for NaN
LeZeroN(a) == a # FNaN /\ a <= 0

\* powf: NaN for a NaN base
NPow(x, n) == IF x = FNaN THEN FNaN ELSE FPow(x, n)

\* The tolerance 0.00001 of fuzzy_eq is 1 / EpsInv.
EpsInv == 100000

\* f64::fuzzy_eq: (a - b).abs() < 0.00001, that is |a - b| * EpsInv < Scale in
\* units, written without the product (which can pass 2^31)
FuzzyEq(a, b) == Abs(a - b) <= (Scale - 1) \div EpsInv

(***************************************************************************)
(* Tuples: Vector (w = 0), Point (w = 1), Color (three channels)           *)
(***************************************************************************)
\* [T; 4], indexed from 0
Tuple4(x, y, z, w) == (0 :> x) @@ (1 :> y) @@ (2 :> z) @@ (3 :> w)

\* Vector::new
NewVector(x, y, z) == Tuple4(x, y, z, 0)

\* Point::new
NewPoint(x, y, z) == Tuple4(x, y, z, One)

\* Color::new
NewColor(r, g, b) == (0 :> r) @@ (1 :> g) @@ (2 :> b)

\* impl Add for Vector
VecAdd(a, b) == NewVector(NAdd(a[0], b[0]), NAdd(a[1], b[1]), NAdd(a[2], b[2]))

\* impl Sub for Vector
VecSub(a, b) == NewVector(NSub(a[0], b[0]), NSub(a[1], b[1]), NSub(a[2], b[2]))

\* impl Mul<f64> for Vector
VecMul(a, k) == NewVector(NMul(a[0], k), NMul(a[1], k), NMul(a[2], k))

\* impl Div<f64> for Vector: 1.0 / rhs * self.  1.0 / 0.0 is infinite, and
\* infinity * 0.0 is NaN: the zero vector over 0.0 is all NaN.  (A vector that
\* is not zero over 0.0 has infinite components: not modelled.)
VecDiv(a, k) ==
    IF k = FNaN \/ (k = 0 /\ a[0] = 0 /\ a[1] = 0 /\ a[2] = 0)
    THEN NewVector(FNaN, FNaN, FNaN)
    ELSE VecMul(a, FDiv(One, k))

\* impl Neg for Vector: -1.0 * self
VecNeg(a) == VecMul(a, -One)

\* Vector::dot: all four components
Dot(a, b) ==
    NAdd(NAdd(NAdd(NMul(a[0], b[0]), NMul(a[1], b[1])), NMul(a[2], b[2])), NMul(a[3], b[3]))

\* Vector::cross
Cross(a, b) ==
    NewVector(NSub(NMul(a[1], b[2]), NMul(a[2], b[1])),
              NSub(NMul(a[2], b[0]), NMul(a[0], b[2])),
              NSub(NMul(a[0], b[1]), NMul(a[1], b[0])))

\* Vector::magnitude: the first three components
Magnitude(a) ==
    IF a[0] = FNaN \/ a[1] = FNaN \/ a[2] = FNaN THEN FNaN
    ELSE FSqrt(FMul(a[0], a[0]) + FMul(a[1], a[1]) + FMul(a[2], a[2]))

\* Vector::normalize: self / self.magnitude()
Normalize(a) == VecDiv(a, Magnitude(a))

\* Vector::reflect: self - normal * 2 * dot(self, normal)
Reflect(v, normal) == VecSub(v, VecMul(VecMul(normal, 2 * One), Dot(v, normal)))

\* impl Sub for Point: a Vector
PointSub(a, b) == NewVector(NSub(a[0], b[0]), NSub(a[1], b[1]), NSub(a[2], b[2]))

\* impl Add<Vector> for Point: a Point
PointAdd(a, v) == NewPoint(NAdd(a[0], v[0]), NAdd(a[1], v[1]), NAdd(a[2], v[2]))

\* impl From<Vector> for Point
PointFromVector(v) == NewPoint(v[0], v[1], v[2])

\* impl Mul<T> for GenericTuple (the scalar product of a Point): every
\* component, the fourth included
TupleMul(t, k) == [i \in 0..3 |-> NMul(t[i], k)] @@ <<>>

\* impl Div<T> for GenericTuple: self[i] * 1 / rhs, rhs # 0
TupleDiv(t, k) == [i \in 0..3 |-> NDiv(NMul(t[i], One), k)] @@ <<>>

\* impl Neg for GenericTuple: self[i] * -1
TupleNeg(t) == [i \in 0..3 |-> NMul(t[i], -One)] @@ <<>>

\* impl Mul for Color (elementwise)
ColorMul(a, b) == NewColor(NMul(a[0], b[0]), NMul(a[1], b[1]), NMul(a[2], b[2]))

\* impl Mul<f64> for Color
ColorScale(a, k) == NewColor(NMul(a[0], k), NMul(a[1], k), NMul(a[2], k))

\* impl Add for Color
ColorAdd(a, b) == NewColor(NAdd(a[0], b[0]), NAdd(a[1], b[1]), NAdd(a[2], b[2]))

Black == NewColor(0, 0, 0)

(***************************************************************************)
(* Matrix<N>: [0..N-1 -> [0..N-1 -> f64]]  (matrix.rs)                     *)
(***************************************************************************)
\* The array f with every entry computed (f itself; TLC would otherwise compute
\* an entry anew each time it is read).
Array(f) == f @@ <<>>

\* Matrix::default: all zero
ZeroMatrix(n) == Array([i \in 0..(n - 1) |-> Array([j \in 0..(n - 1) |-> 0])])

\* Matrix::identity
Identity(n) ==
    Array([i \in 0..(n - 1) |-> Array([j \in 0..(n - 1) |-> IF i = j THEN One ELSE 0])])

\* Matrix::transpose
Transpose(m, n) == Array([i \in 0..(n - 1) |-> Array([j \in 0..(n - 1) |-> m[j][i]])])

RECURSIVE SumTo(_, _, _)
\* sum = sum + f[k], for k in 0..n-1
SumTo(f, k, n) == IF k >= n THEN 0 ELSE NAdd(f[k], SumTo(f, k + 1, n))

\* Matrix * Matrix with the factors exchanged.
MatMulReversed(a, b, n) ==
    Array([i \in 0..(n - 1) |-> Array([j \in 0..(n - 1) |->
        SumTo([k \in 0..(n - 1) |-> FMul(b[i][k], a[k][j])], 0, n)])])

\* impl Mul for Matrix
MatMul(a, b, n) ==
    Array([i \in 0..(n - 1) |-> Array([j \in 0..(n - 1) |->
        SumTo([k \in 0..(n - 1) |-> FMul(a[i][k], b[k][j])], 0, n)])])

\* impl Mul<T> for Matrix: res starts as the default matrix, and each entry
\* of res is rhs times the entry of res; self is never read.
MatScale(self, n, rhs) ==
    LET default == ZeroMatrix(n)
    IN Array([i \in 0..(n - 1) |-> Array([j \in 0..(n - 1) |-> NMul(rhs, default[i][j])])])

\* impl Mul<Tuple> for Matrix<4>
MatMulTuple(m, t) ==
    Array([i \in 0..3 |-> SumTo([j \in 0..3 |-> NMul(m[i][j], t[j])], 0, 4)])

RECURSIVE SubmatrixCols(_, _, _, _, _, _, _, _)
\* The inner while loop of submatrix, for source row sr and target row tr.
SubmatrixCols(m, n, rc, sr, tr, sc, tc, acc) ==
    IF sc >= n THEN acc
    ELSE IF sc = rc THEN SubmatrixCols(m, n, rc, sr, tr, sc + 1, tc, acc)
    ELSE SubmatrixCols(m, n, rc, sr, tr, sc + 1, tc + 1,
                       [acc EXCEPT ![tr][tc] = m[sr][sc]])

RECURSIVE SubmatrixRows(_, _, _, _, _, _, _)
\* The outer while loop of submatrix.
SubmatrixRows(m, n, rr, rc, sr, tr, acc) ==
    IF sr >= n THEN acc
    ELSE IF sr = rr THEN SubmatrixRows(m, n, rr, rc, sr + 1, tr, acc)
    ELSE SubmatrixRows(m, n, rr, rc, sr + 1, tr + 1,
                       SubmatrixCols(m, n, rc, sr, tr, 0, 0, acc))

\* Matrix::submatrix with remove_row and remove_col exchanged.
SubmatrixExchanged(m, n, rr, rc) == SubmatrixRows(m, n, rc, rr, 0, 0, ZeroMatrix(n - 1))

\* Matrix::submatrix(remove_row, remove_col), both in range
Submatrix(m, n, rr, rc) == SubmatrixRows(m, n, rr, rc, 0, 0, ZeroMatrix(n - 1))

RECURSIVE Determinant(_, _)
RECURSIVE Cofactor(_, _, _, _)

\* Matrix::minor
Minor(m, n, rr, rc) == Determinant(Submatrix(m, n, rr, rc), n - 1)

\* Matrix::cofactor without the sign.
CofactorNoSign(m, n, rr, rc) == Minor(m, n, rr, rc)

\* Matrix::cofactor
Cofactor(m, n, rr, rc) ==
    LET minor == Minor(m, n, rr, rc)
    IN IF (rr + rc) % 2 = 0 THEN minor ELSE -minor

\* Matrix::determinant: ad - bc for 2x2, the cofactor expansion along row 0 above
Determinant(m, n) ==
    IF n = 2 THEN FMul(m[0][0], m[1][1]) - FMul(m[1][0], m[0][1])
    ELSE SumTo([i \in 0..(n - 1) |-> FMul(m[0][i], Cofactor(m, n, 0, i))], 0, n)

\* Matrix::is_invertible
IsInvertible(m, n) == ~FuzzyEq(Determinant(m, n), 0)

\* Matrix::inverse returning the identity where it panics.
InverseOrIdentity(m, n) ==
    IF ~IsInvertible(m, n) THEN [ok |-> TRUE, m |-> Identity(n)]
    ELSE LET det == Determinant(m, n)
         IN [ok |-> TRUE,
             m |-> Array([j \in 0..(n - 1) |-> Array([i \in 0..(n - 1) |->
                       FDiv(Cofactor(m, n, i, j), det)])])]

\* Matrix::inverse writing res[i][j] where it writes res[j][i].
InverseNoTranspose(m, n) ==
    IF ~IsInvertible(m, n) THEN [ok |-> FALSE, m |-> ZeroMatrix(n)]
    ELSE LET det == Determinant(m, n)
         IN [ok |-> TRUE,
             m |-> Array([i \in 0..(n - 1) |-> Array([j \in 0..(n - 1) |->
                       FDiv(Cofactor(m, n, i, j), det)])])]

\* Matrix::inverse: [ok, m]; ~ok is panic!("matrix is not invertible")
Inverse(m, n) ==
    IF ~IsInvertible(m, n) THEN [ok |-> FALSE, m |-> ZeroMatrix(n)]
    ELSE LET det == Determinant(m, n)
         IN [ok |-> TRUE,
             m |-> Array([j \in 0..(n - 1) |-> Array([i \in 0..(n - 1) |->
                       FDiv(Cofactor(m, n, i, j), det)])])]

\* Matrix::translate
Translate(x, y, z) ==
    Array([i \in 0..3 |-> Array([j \in 0..3 |->
        IF i = j THEN One
        ELSE IF j = 3 THEN (IF i = 0 THEN x ELSE IF i = 1 THEN y ELSE z)
        ELSE 0])])

\* Matrix::scale
Scaling(x, y, z) ==
    Array([i \in 0..3 |-> Array([j \in 0..3 |->
        IF i # j THEN 0
        ELSE IF i = 0 THEN x ELSE IF i = 1 THEN y ELSE IF i = 2 THEN z ELSE One])])

Half == One \div 2

\* The transforms given to a sphere by with_transform; the last is singular.
SphereTransforms ==
    { Identity(4),
      Scaling(2 * One, 2 * One, 2 * One),
      Scaling(Half, Half, Half),
      Translate(5 * One, 0, 0),
      Translate(0, 0, One),
      Scaling(0, One, One) }

\* The transforms of the bodies of a world: all invertible.
WorldTransforms ==
    { Identity(4),
      Scaling(Half, Half, Half),
      Translate(-5 * One, 5 * One, -5 * One) }

(***************************************************************************)
(* Camera (camera.rs)                                                      *)
(***************************************************************************)
\* Camera::new(hsize, vsize, field_of_view), half_size being
\* (field_of_view / 2.0).tan()
NewCamera(hsize, vsize, half_size) ==
    LET aspect_ratio == FDiv(hsize * One, vsize * One)
        half_width == IF aspect_ratio >= One THEN half_size
                      ELSE FMul(half_size, aspect_ratio)
        half_height == IF aspect_ratio >= One THEN FDiv(half_size, aspect_ratio)
                       ELSE half_size
    IN [transform |-> Identity(4), hsize |-> hsize, vsize |-> vsize,
        half_width |-> half_width, half_height |-> half_height,
        pixel_size |-> FDiv(half_width * 2, hsize * One)]

\* Camera::look_at_from_position, from the axes on: orientation, translation
\* and the transform set on the camera
LookAtAxes(camera, from, forward, left, true_up) ==
    LET orientation == (0 :> Tuple4(left[0], left[1], left[2], 0))
                    @@ (1 :> Tuple4(true_up[0], true_up[1], true_up[2], 0))
                    @@ (2 :> Tuple4(-forward[0], -forward[1], -forward[2], 0))
                    @@ (3 :> Tuple4(0, 0, 0, One))
        translation == Translate(-from[0], -from[1], -from[2])
    IN [camera EXCEPT !.transform = MatMul(orientation, translation, 4)]

\* Camera::look_at_from_position, from left on: true_up
LookAtLeft(camera, from, forward, left) ==
    LookAtAxes(camera, from, forward, left, Cross(left, forward))

\* Camera::look_at_from_position, from forward on: left
LookAtForward(camera, from, up, forward) ==
    LookAtLeft(camera, from, forward, Cross(forward, Normalize(up)))

\* Camera::look_at_from_position
LookAtFromPosition(camera, from, to, up) ==
    LookAtForward(camera, from, up, Normalize(PointSub(to, from)))

\* The canvas of the render loop is CanvasWidth x CanvasHeight, and NumWorkers
\* threads serve the loop.
CanvasWidth == 2
CanvasHeight == 2
NumWorkers == 2

\* The camera of the render loop: a field of view of a right angle
\* (half_size 1.0), looking at the origin from three units before it.
RenderCamera ==
    LookAtFromPosition(NewCamera(CanvasWidth, CanvasHeight, One),
                       NewPoint(0, 0, -3 * One), NewPoint(0, 0, 0), NewVector(0, One, 0))

CameraTransforms == {RenderCamera.transform}

\* inverse() of each transform of the scenes, computed once.
SceneInverses ==
    Array([m \in SphereTransforms \cup WorldTransforms \cup CameraTransforms |->
              Inverse(m, 4)])

\* self.transform.inverse(), self a sphere of the scenes
TransformInverse(m) == SceneInverses[m]

(***************************************************************************)
(* Ray (ray.rs)                                                            *)
(***************************************************************************)
\* Ray::new
NewRay(origin, direction) == [origin |-> origin, direction |-> direction]

\* Camera::ray_for_pixel, from the two points on: the ray through them
RayThrough(ray_origin, wall_point) ==
    NewRay(ray_origin, Normalize(PointSub(wall_point, ray_origin)))

\* Camera::ray_for_pixel, from the inverse of the view transform on
RayFromView(inverse_view_transform, world_x, world_y) ==
    RayThrough(MatMulTuple(inverse_view_transform, NewPoint(0, 0, 0)),
               MatMulTuple(inverse_view_transform, NewPoint(world_x, world_y, -One)))

\* Camera::ray_for_pixel
RayForPixel(camera, x, y) ==
    LET offset_x == FMul(Half + x * One, camera.pixel_size)
        offset_y == FMul(Half + y * One, camera.pixel_size)
        world_x == camera.half_width - offset_x
        world_y == camera.half_height - offset_y
    IN RayFromView(TransformInverse(camera.transform).m, world_x, world_y)

\* Ray::position
Position(r, t) == PointAdd(r.origin, VecMul(r.direction, t))

\* Ray::transform
RayTransform(r, m) ==
    [origin |-> MatMulTuple(m, r.origin), direction |-> MatMulTuple(m, r.direction)]

(***************************************************************************)
(* Phong material and PointLight (material.rs, light.rs)                   *)
(***************************************************************************)
\* PointLight::new
NewPointLight(position, intensity) == [position |-> position, intensity |-> intensity]

\* Phong { color, ambient, diffuse, specular, shininess }
NewPhong(color, ambient, diffuse, specular, shininess) ==
    [color |-> color, ambient |-> ambient, diffuse |-> diffuse,
     specular |-> specular, shininess |-> shininess]

\* Phong::default: white, 0.1, 0.9, 0.9, 200.0
DefaultPhong ==
    NewPhong(NewColor(One, One, One), One \div 10, (9 * One) \div 10, (9 * One) \div 10, 200)

\* Phong::lighting as it was before shadow_state: the shadow test is missing.
LightingNoShadow(m, light, position, eye_vector, normal_vector, shadow_state) ==
    LET effective_color == ColorMul(m.color, light.intensity)
        light_vector == Normalize(PointSub(light.position, position))
        ambient_light == ColorScale(effective_color, m.ambient)
        light_dot_normal == Dot(light_vector, normal_vector)
        reflect_vector == VecNeg(Reflect(light_vector, normal_vector))
        reflect_dot_eye == Dot(reflect_vector, eye_vector)
        diffuse_light ==
            IF LtZero(light_dot_normal) THEN Black
            ELSE ColorScale(ColorScale(effective_color, m.diffuse), light_dot_normal)
        specular_light ==
            IF LtZero(light_dot_normal) THEN Black
            ELSE IF LeZeroN(reflect_dot_eye) THEN Black
            ELSE ColorScale(ColorScale(light.intensity, m.specular),
                            NPow(reflect_dot_eye, m.shininess))
    IN ColorAdd(ColorAdd(ambient_light, diffuse_light), specular_light)

\* Phong::lighting without the test of the side the light is on.
LightingBehindLit(m, light, position, eye_vector, normal_vector, shadow_state) ==
    LET effective_color == ColorMul(m.color, light.intensity)
        light_vector == Normalize(PointSub(light.position, position))
        ambient_light == ColorScale(effective_color, m.ambient)
        light_dot_normal == Dot(light_vector, normal_vector)
        reflect_vector == VecNeg(Reflect(light_vector, normal_vector))
        reflect_dot_eye == Dot(reflect_vector, eye_vector)
        diffuse_light ==
            ColorScale(ColorScale(effective_color, m.diffuse), light_dot_normal)
        specular_light ==
            IF LeZeroN(reflect_dot_eye) THEN Black
            ELSE ColorScale(ColorScale(light.intensity, m.specular),
                            NPow(reflect_dot_eye, m.shininess))
    IN IF shadow_state = "Shadow" THEN ambient_light
       ELSE ColorAdd(ColorAdd(ambient_light, diffuse_light), specular_light)

\* Phong::lighting (and Material::lighting, which forwards to it)
Lighting(m, light, position, eye_vector, normal_vector, shadow_state) ==
    LET effective_color == ColorMul(m.color, light.intensity)
        light_vector == Normalize(PointSub(light.position, position))
        ambient_light == ColorScale(effective_color, m.ambient)
        light_dot_normal == Dot(light_vector, normal_vector)
        reflect_vector == VecNeg(Reflect(light_vector, normal_vector))
        reflect_dot_eye == Dot(reflect_vector, eye_vector)
        diffuse_light ==
            IF LtZero(light_dot_normal) THEN Black
            ELSE ColorScale(ColorScale(effective_color, m.diffuse), light_dot_normal)
        specular_light ==
            IF LtZero(light_dot_normal) THEN Black
            ELSE IF LeZeroN(reflect_dot_eye) THEN Black
            ELSE ColorScale(ColorScale(light.intensity, m.specular),
                            NPow(reflect_dot_eye, m.shininess))
    IN IF shadow_state = "Shadow" THEN ambient_light
       ELSE ColorAdd(ColorAdd(ambient_light, diffuse_light), specular_light)

(***************************************************************************)
(* Intersection and Intersections (intersection.rs)                        *)
(***************************************************************************)
\* Intersection::new
NewIntersection(t, ray, body) == [t |-> t, ray |-> ray, body |-> body]

RECURSIVE InsertTail(_, _)
\* One pass of the insertion sort: e is moved left past every entry it is Less
\* than.  The comparator is |a, b| a.t.partial_cmp(&b.t).unwrap(): a None
\* comparison panics.
InsertTail(s, e) ==
    IF s = <<>> THEN [ok |-> TRUE, seq |-> <<e>>]
    ELSE LET last == s[Len(s)]
             c == PartialCmp(e.t, last.t)
         IN IF c = "None" THEN [ok |-> FALSE, seq |-> <<>>]
            ELSE IF c = "Less"
                 THEN LET r == InsertTail(SubSeq(s, 1, Len(s) - 1), e)
                      IN IF r.ok THEN [ok |-> TRUE, seq |-> Append(r.seq, last)] ELSE r
                 ELSE [ok |-> TRUE, seq |-> Append(s, e)]

RECURSIVE SortFirst(_, _)
\* The first n entries of v, sorted (insertion sort, which is what
\* sort_unstable_by runs on slices this short).
SortFirst(v, n) ==
    IF n = 0 THEN [ok |-> TRUE, seq |-> <<>>]
    ELSE LET r == SortFirst(v, n - 1)
         IN IF r.ok THEN InsertTail(r.seq, v[n]) ELSE r

SortUnstableNoSort(v) == [ok |-> TRUE, seq |-> v]

\* intersections.sort_unstable_by(|a, b| a.t.partial_cmp(&b.t).unwrap())
SortUnstableBy(v) == SortFirst(v, Len(v))

\* Intersections::from(Vec<Intersection>): [ok, seq]; ~ok is the panic of unwrap().
IntersectionsFrom(v) == SortUnstableBy(v)

NoHit == [some |-> FALSE]
SomeHit(i, e) == [some |-> TRUE, idx |-> i, val |-> e]

RECURSIVE HitScan(_, _)
\* The loop of hit(), from entry i on.
HitScan(s, i) ==
    IF i > Len(s) THEN NoHit
    ELSE IF GtZero(s[i].t) THEN SomeHit(i, s[i])
    ELSE HitScan(s, i + 1)

RECURSIVE HitScanGe(_, _)
HitScanGe(s, i) ==
    IF i > Len(s) THEN NoHit
    ELSE IF ~s[i].t.nan /\ s[i].t.v >= 0 THEN SomeHit(i, s[i])
    ELSE HitScanGe(s, i + 1)

HitGe(s) == HitScanGe(s, 1)

\* Intersections::hit
Hit(s) == HitScan(s, 1)

(***************************************************************************)
(* Sphere (sphere.rs), Body (body.rs), Intersection::computed              *)
(***************************************************************************)
\* Sphere { transform, material }
NewSphere(transform, material) == [transform |-> transform, material |-> material]

\* Sphere::default
DefaultSphere == NewSphere(Identity(4), DefaultPhong)

\* Sphere::with_transform
WithTransform(s, transform) == [transform |-> transform, material |-> s.material]

\* Sphere::with_material
WithMaterial(s, material) == [material |-> material, transform |-> s.transform]

\* The ray of r in the sphere's object space and the quadratic's a, b, c
\* (inv is transform.inverse(), which did not panic).
Quadratic(inv, r) ==
    LET object_space_ray == RayTransform(r, inv)
        sphere_to_ray == PointSub(object_space_ray.origin, NewPoint(0, 0, 0))
    IN [a |-> Dot(object_space_ray.direction, object_space_ray.direction),
        b |-> 2 * Dot(object_space_ray.direction, sphere_to_ray),
        c |-> Dot(sphere_to_ray, sphere_to_ray) - One]

\* b * b - 4.0 * a * c
Discriminant(q) == FMul(q.b, q.b) - FMul(4 * q.a, q.c)

\* num / den as f64 does it: 0/0 is NaN, x/0 an infinity.
RootOf(num, den) ==
    IF den # 0 THEN F(FDiv(num, den))
    ELSE IF num = 0 THEN NaN
    ELSE F(IF num > 0 THEN 2000000000 ELSE -2000000000)

SphereRootsTangentMiss(s, r, q) ==
    LET descriminant == Discriminant(q)
    IN IF descriminant <= 0 THEN <<>>
       ELSE LET t1 == RootOf(-q.b - FSqrt(descriminant), 2 * q.a)
                t2 == RootOf(-q.b + FSqrt(descriminant), 2 * q.a)
            IN <<NewIntersection(t1, r, s), NewIntersection(t2, r, s)>>

\* The entries Sphere::intersect hands to Intersections::from.
SphereRoots(s, r, q) ==
    LET descriminant == Discriminant(q)
    IN IF descriminant < 0 THEN <<>>
       ELSE LET t1 == RootOf(-q.b - FSqrt(descriminant), 2 * q.a)
                t2 == RootOf(-q.b + FSqrt(descriminant), 2 * q.a)
            IN <<NewIntersection(t1, r, s), NewIntersection(t2, r, s)>>

\* Sphere::intersect (and Body::intersect, which forwards to it): [ok, seq];
\* ~ok is a panic, of inverse() or of the sort in Intersections::from.
SphereIntersect(s, r) ==
    LET inv == TransformInverse(s.transform)
    IN IF ~inv.ok THEN [ok |-> FALSE, seq |-> <<>>]
       ELSE IntersectionsFrom(SphereRoots(s, r, Quadratic(inv.m, r)))

\* The body of Sphere::normal_at returning world_normal as it is, without
\* Vector::new and normalize.
NormalFromWorldNormal(t_inv, p) ==
    LET object_point == MatMulTuple(t_inv, p)
        object_normal == Normalize(PointSub(object_point, NewPoint(0, 0, 0)))
    IN MatMulTuple(Transpose(t_inv, 4), object_normal)

\* The body of Sphere::normal_at, t_inv being self.transform.inverse()
NormalFrom(t_inv, p) ==
    LET object_point == MatMulTuple(t_inv, p)
        object_normal == Normalize(PointSub(object_point, NewPoint(0, 0, 0)))
        world_normal == MatMulTuple(Transpose(t_inv, 4), object_normal)
    IN Normalize(NewVector(world_normal[0], world_normal[1], world_normal[2]))

\* Sphere::normal_at (and Body::normal_at), for an invertible transform
NormalAt(s, p) == NormalFrom(TransformInverse(s.transform).m, p)

\* Body::material
MaterialOf(body) == body.material

\* EPISILON of the fuzzy_eq module: 0.00001
Epsilon == Scale \div EpsInv

\* Intersection::computed from the point on the ray, where surface is
\* body.normal_at(position): the normal is turned to the eye's side.
ComputedFrom(i, position, surface) ==
    LET eye == VecNeg(i.ray.direction)
        inside == LtZero(Dot(surface, eye))
        normal == IF inside THEN VecNeg(surface) ELSE surface
    IN [intersection |-> i,
        position |-> position,
        over_point |-> PointAdd(position, VecMul(normal, Epsilon)),
        normal |-> normal,
        eye |-> eye,
        orientation |-> IF inside THEN "Inside" ELSE "Outside"]

\* The f64 t of an intersection as a component (finite, or NaN).
TComponent(t) == IF t.nan THEN FNaN ELSE t.v

\* Intersection::computed
Computed(i) ==
    ComputedFrom(i, Position(i.ray, TComponent(i.t)),
                 NormalAt(i.body, Position(i.ray, TComponent(i.t))))

(***************************************************************************)
(* World (world.rs)                                                        *)
(***************************************************************************)
\* World::new
NewWorld(bodies, lights) == [bodies |-> bodies, lights |-> lights]

RECURSIVE FlatMapIntersect(_, _, _)
\* self.bodies.iter().flat_map(|body| body.intersect(ray)).collect(), from
\* body k on: [ok, seq]
FlatMapIntersect(bodies, ray, k) ==
    IF k > Len(bodies) THEN [ok |-> TRUE, seq |-> <<>>]
    ELSE LET one == SphereIntersect(bodies[k], ray)
             rest == FlatMapIntersect(bodies, ray, k + 1)
         IN IF one.ok /\ rest.ok THEN [ok |-> TRUE, seq |-> one.seq \o rest.seq]
            ELSE [ok |-> FALSE, seq |-> <<>>]

WorldIntersectNoSort(w, ray) == FlatMapIntersect(w.bodies, ray, 1)

\* World::intersect: [ok, seq]
WorldIntersect(w, ray) ==
    LET xss == FlatMapIntersect(w.bodies, ray, 1)
    IN IF xss.ok THEN IntersectionsFrom(xss.seq) ELSE xss

\* material.lighting(light, c.position, c.eye, c.normal), c a computed intersection
LightingAt(material, light, c, shadow_state) ==
    Lighting(material, light, c.position, c.eye, c.normal, shadow_state)

ShadeHitEagerLight(w, hit, shadow_state) ==
    IF w.lights = <<>> THEN [ok |-> FALSE, color |-> Black]
    ELSE IF hit.some
    THEN [ok |-> TRUE,
          color |-> LightingAt(MaterialOf(hit.val.body), w.lights[1], Computed(hit.val),
                               shadow_state)]
    ELSE [ok |-> TRUE, color |-> NewColor(0, 0, 0)]

ShadeHitLastLight(w, hit, shadow_state) ==
    IF hit.some
    THEN IF w.lights = <<>> THEN [ok |-> FALSE, color |-> Black]
         ELSE [ok |-> TRUE,
               color |-> LightingAt(MaterialOf(hit.val.body), w.lights[Len(w.lights)],
                                    Computed(hit.val), shadow_state)]
    ELSE [ok |-> TRUE, color |-> NewColor(0, 0, 0)]

\* color_at that returns black for a hit in a world without lights.
ShadeHitUnlitIsBlack(w, hit, shadow_state) ==
    IF hit.some /\ w.lights # <<>>
    THEN [ok |-> TRUE,
          color |-> LightingAt(MaterialOf(hit.val.body), w.lights[1],
                               Computed(hit.val), shadow_state)]
    ELSE [ok |-> TRUE, color |-> NewColor(0, 0, 0)]

\* What color_at does with the hit it found (None: black).  &self.lights[0]
\* panics on an empty list.
ShadeHit(w, hit, shadow_state) ==
    IF hit.some
    THEN IF w.lights = <<>> THEN [ok |-> FALSE, color |-> Black]
         ELSE [ok |-> TRUE,
               color |-> LightingAt(MaterialOf(hit.val.body), w.lights[1],
                                    Computed(hit.val), shadow_state)]
    ELSE [ok |-> TRUE, color |-> NewColor(0, 0, 0)]

\* Whether a body of w lies between point and the light: the shadow test that
\* color_at does not make.  [shadowed, by]
ShadowTest(w, point, light) ==
    LET v == PointSub(light.position, point)
        distance == Magnitude(v)
        h == Hit(WorldIntersect(w, NewRay(point, Normalize(v))).seq)
    IN IF h.some /\ h.val.t.v < distance
       THEN [shadowed |-> TRUE, by |-> h.val.body]
       ELSE [shadowed |-> FALSE]

ColorAtShadowTest(w, ray) ==
    LET xs_ == WorldIntersect(w, ray)
        hit == Hit(xs_.seq)
    IN IF ~xs_.ok THEN [ok |-> FALSE, color |-> Black]
       ELSE IF hit.some /\ w.lights # <<>>
                 /\ ShadowTest(w, Computed(hit.val).position, w.lights[1]).shadowed
       THEN ShadeHit(w, hit, "Shadow")
       ELSE ShadeHit(w, hit, "Clear")

\* World::color_at: [ok, color]; ~ok is a panic.  This lighting call predates
\* ShadowState: it is the Clear computation.
ColorAt(w, ray) ==
    LET xs_ == WorldIntersect(w, ray)
    IN IF ~xs_.ok THEN [ok |-> FALSE, color |-> Black]
       ELSE ShadeHit(w, Hit(xs_.seq), "Clear")

(***************************************************************************)
(* The Intersections collection as an object                               *)
(***************************************************************************)
\* Bounds of the collection's specification.
MaxLen == 3
MaxT == 2

TVals == {F(v) : v \in (-1)..MaxT} \cup {NaN}
BodyIds == {"s1", "s2"}
XsElems == {NewIntersection(t, "r", b) : t \in TVals, b \in BodyIds}
XsInputs == SeqsUpTo(XsElems, MaxLen)

\* A usize index as the caller writes it (0-based); MaxLen itself is out of range.
XsIndexes == 0..MaxLen

notXs == <<world, sphere, phong, renderVars, stepVars>>

\* Intersections::from(v), v the Vec the caller holds: the only constructor (the
\* field intersections is private)
XsFrom ==
    /\ status = "unbuilt"
    /\ LET r == IntersectionsFrom(arg)
       IN /\ op' = "from"
          /\ arg' = arg
          /\ IF r.ok
             THEN xs' = r.seq /\ status' = "live" /\ res' = [panic |-> FALSE]
             ELSE xs' = <<>> /\ status' = "panicked" /\ res' = Panic
    /\ UNCHANGED notXs

\* xs.hit()
XsHit ==
    /\ status = "live"
    /\ op' = "hit" /\ arg' = <<>> /\ res' = Hit(xs)
    /\ UNCHANGED <<xs, status, world, sphere, phong, renderVars, stepVars>>

\* xs.len()
XsLen ==
    /\ status = "live"
    /\ op' = "len" /\ arg' = <<>> /\ res' = Len(xs)
    /\ UNCHANGED <<xs, status, world, sphere, phong, renderVars, stepVars>>

\* xs.is_empty()
XsIsEmpty ==
    /\ status = "live"
    /\ op' = "is_empty" /\ arg' = <<>> /\ res' = (xs = <<>>)
    /\ UNCHANGED <<xs, status, world, sphere, phong, renderVars, stepVars>>

\* xs[i]: Vec's index panics when i is out of range
XsIndex ==
    /\ status = "live"
    /\ \E i \in XsIndexes :
        /\ op' = "index" /\ arg' = <<i>>
        /\ IF i < Len(xs)
           THEN res' = xs[i + 1] /\ UNCHANGED <<xs, status>>
           ELSE res' = Panic /\ status' = "panicked" /\ xs' = <<>>
    /\ UNCHANGED notXs

\* xs[i].t = t, through index_mut and the public field t
XsIndexMutAssign ==
    /\ status = "live"
    /\ \E i \in XsIndexes, t \in TVals :
        /\ op' = "index_mut" /\ arg' = <<i, t>>
        /\ IF i < Len(xs)
           THEN /\ xs' = [xs EXCEPT ![i + 1].t = t]
                /\ res' = [panic |-> FALSE]
                /\ UNCHANGED status
           ELSE res' = Panic /\ status' = "panicked" /\ xs' = <<>>
    /\ UNCHANGED notXs

\* xs.into_iter(): the collection is moved into the iterator, which yields the
\* entries in storage order
XsIntoIter ==
    /\ status = "live"
    /\ op' = "into_iter" /\ arg' = <<>> /\ res' = xs
    /\ xs' = <<>> /\ status' = "moved"
    /\ UNCHANGED notXs

InitIdle ==
    /\ world = [bodies |-> <<>>, lights |-> <<>>]
    /\ sphere = <<>>
    /\ phong = <<>>
    /\ RenderIdle /\ StepIdle

\* Before construction: the caller holds the Vec it is about to pass.
InitXs ==
    /\ InitIdle
    /\ xs = <<>>
    /\ status = "unbuilt"
    /\ op = "none"
    /\ arg \in XsInputs
    /\ res = <<>>

NextXs ==
    \/ XsFrom
    \/ XsHit
    \/ XsLen
    \/ XsIsEmpty
    \/ XsIndex
    \/ XsIndexMutAssign
    \/ XsIntoIter

SpecXs == InitXs /\ [][NextXs]_vars

(***************************************************************************)
(* Scenes: the rays, transforms, materials and lights the calls are made   *)
(* with.  Every transform of WorldBodies is invertible.                     *)
(***************************************************************************)
\* Ray origins are (0, y, z) with y in steps of 0.5 up to MaxHalfY / 2.
MaxHalfY == 2
\* A World holds at most MaxBodies bodies and MaxLights lights.
MaxBodies == 2
MaxLights == 2

RayOrigins ==
    {NewPoint(0, (y * One) \div 2, z * One) : y \in 0..MaxHalfY, z \in {-5, 0, 5}}

\* Rays with a direction of length 1.
UnitRays ==
    {NewRay(o, d) : o \in RayOrigins, d \in {NewVector(0, 0, One), NewVector(0, One, 0)}}

\* The rays given to a world: the unit rays from the z axis, one that passes
\* 0.5 above it, and a ray with the zero direction.
WorldRays ==
    {r \in UnitRays : r.origin[1] = 0}
        \cup {NewRay(NewPoint(0, Half, -5 * One), NewVector(0, 0, One)),
              NewRay(NewPoint(0, 0, 0), NewVector(0, 0, 0))}

\* The rays given to a sphere: the unit rays, rays with the zero direction, and
\* rays with a direction so short that its squared length underflows to 0.
SphereRays ==
    UnitRays \cup {NewRay(o, d) : o \in RayOrigins,
                                 d \in {NewVector(0, 0, 0), NewVector(0, 0, 1)}}

\* The material of the first sphere of the repository's test world.
TestPhong ==
    NewPhong(NewColor((8 * One) \div 10, One, (6 * One) \div 10),
             One \div 10, (7 * One) \div 10, (2 * One) \div 10, 200)

SphereMaterials == {DefaultPhong, TestPhong}

WorldBodies ==
    { NewSphere(Identity(4), TestPhong),
      NewSphere(Scaling(Half, Half, Half), DefaultPhong),
      NewSphere(Translate(-5 * One, 5 * One, -5 * One), DefaultPhong) }

WorldLights ==
    { NewPointLight(NewPoint(-10 * One, 10 * One, -10 * One), NewColor(One, One, One)),
      NewPointLight(NewPoint(10 * One, 10 * One, -10 * One), NewColor(Half, Half, One)) }

Worlds ==
    {NewWorld(b, l) : b \in SeqsUpTo(WorldBodies, MaxBodies),
                      l \in SeqsUpTo(WorldLights, MaxLights)}

(***************************************************************************)
(* The Sphere as an object.  A call is made when the caller holds no       *)
(* result of an earlier call (op = "none"); Return is the caller being done *)
(* with the result, as the body of a render loop is at its end.            *)
(***************************************************************************)
\* The caller is done with what the last call returned.
Return ==
    /\ op # "none"
    /\ op' = "none" /\ arg' = <<>> /\ res' = <<>>
    /\ UNCHANGED <<xs, status, world, sphere, phong, renderVars, stepVars>>

InitSphere ==
    /\ xs = <<>> /\ status = "unbuilt"
    /\ world = [bodies |-> <<>>, lights |-> <<>>]
    /\ phong = <<>>
    /\ sphere = DefaultSphere
    /\ RenderIdle /\ StepIdle
    /\ op = "none" /\ arg = <<>> /\ res = <<>>

\* sphere = sphere.with_transform(t)
SphereWithTransform ==
    /\ op = "none"
    /\ \E t \in SphereTransforms :
        /\ sphere' = WithTransform(sphere, t)
        /\ op' = "with_transform" /\ arg' = t /\ res' = <<>>
    /\ UNCHANGED <<xs, status, world, phong, renderVars, stepVars>>

\* sphere = sphere.with_material(m)
SphereWithMaterial ==
    /\ op = "none"
    /\ \E m \in SphereMaterials :
        /\ sphere' = WithMaterial(sphere, m)
        /\ op' = "with_material" /\ arg' = m /\ res' = <<>>
    /\ UNCHANGED <<xs, status, world, phong, renderVars, stepVars>>

\* sphere.intersect(r)
SphereIntersectCall ==
    /\ op = "none"
    /\ \E r \in SphereRays :
        /\ op' = "intersect" /\ arg' = r /\ res' = SphereIntersect(sphere, r)
    /\ UNCHANGED <<xs, status, world, phong, sphere, renderVars, stepVars>>

\* The points normal_at is asked about: on the unit sphere, on the translated
\* and the scaled spheres, and the centre.
NormalPoints ==
    { NewPoint(One, 0, 0), NewPoint(0, One, 0), NewPoint(0, 0, -One),
      NewPoint(6 * One, 0, 0), NewPoint(5 * One, One, 0), NewPoint(0, 0, 2 * One),
      NewPoint(0, 0, 0) }

\* sphere.normal_at(p); inverse() panics for a singular transform
SphereNormalAtCall ==
    /\ op = "none"
    /\ \E p \in NormalPoints :
        /\ op' = "normal_at" /\ arg' = p
        /\ res' = IF TransformInverse(sphere.transform).ok THEN NormalAt(sphere, p)
                  ELSE Panic
    /\ UNCHANGED <<xs, status, world, phong, sphere, renderVars, stepVars>>

NextSphere ==
    \/ SphereWithTransform
    \/ SphereWithMaterial
    \/ SphereIntersectCall
    \/ SphereNormalAtCall
    \/ Return

SpecSphere == InitSphere /\ [][NextSphere]_vars

(***************************************************************************)
(* The World as an object                                                  *)
(***************************************************************************)
\* World::new(bodies, lights)
InitWorld ==
    /\ xs = <<>> /\ status = "unbuilt"
    /\ sphere = <<>>
    /\ phong = <<>>
    /\ world \in Worlds
    /\ RenderIdle /\ StepIdle
    /\ op = "none" /\ arg = <<>> /\ res = <<>>

\* world.intersect(ray)
WorldIntersectCall ==
    /\ op = "none"
    /\ \E r \in WorldRays :
        /\ op' = "intersect" /\ arg' = r /\ res' = WorldIntersect(world, r)
    /\ UNCHANGED <<xs, status, world, sphere, phong, renderVars, stepVars>>

\* world.color_at(ray) that uses up the first light.
WorldColorAtCallTakesLight ==
    /\ op = "none"
    /\ \E r \in WorldRays :
        /\ op' = "color_at" /\ arg' = r /\ res' = ColorAt(world, r)
    /\ world' = [world EXCEPT !.lights = IF @ = <<>> THEN @ ELSE Tail(@)]
    /\ UNCHANGED <<xs, status, sphere, phong, renderVars, stepVars>>

\* world.color_at(ray)
WorldColorAtCall ==
    /\ op = "none"
    /\ \E r \in WorldRays :
        /\ op' = "color_at" /\ arg' = r /\ res' = ColorAt(world, r)
    /\ UNCHANGED <<xs, status, world, sphere, phong, renderVars, stepVars>>

NextWorld ==
    \/ WorldIntersectCall
    \/ WorldColorAtCall
    \/ Return

SpecWorld == InitWorld /\ [][NextWorld]_vars

(***************************************************************************)
(* The Phong material as an object                                         *)
(***************************************************************************)
LightMaterials ==
    {NewPhong(c, a, d, sp, sh) :
        c \in {NewColor(One, One, One), NewColor(One \div 10, (7 * One) \div 10, One)},
        a \in {One \div 10, (22 * One) \div 100},
        d \in {(9 * One) \div 10, (7 * One) \div 10},
        sp \in {(9 * One) \div 10, (2 * One) \div 10},
        sh \in {200, 10}}

LightPositions == {NewPoint(0, 0, 0), NewPoint(0, One, 0)}
LightEyes == {NewVector(0, 0, -One), NewVector(0, -707, -707)}
LightNormals == {NewVector(0, 0, -One), NewVector(0, 0, One)}
LightLights ==
    { NewPointLight(NewPoint(0, 0, -10 * One), NewColor(One, One, One)),
      NewPointLight(NewPoint(0, 10 * One, -10 * One), NewColor(Half, Half, One)) }
ShadowStates == {"Shadow", "Clear"}

InitLight ==
    /\ xs = <<>> /\ status = "unbuilt"
    /\ world = [bodies |-> <<>>, lights |-> <<>>]
    /\ sphere = <<>>
    /\ phong \in LightMaterials
    /\ RenderIdle /\ StepIdle
    /\ op = "none" /\ arg = <<>> /\ res = <<>>

\* phong.lighting(&light, position, eye_vector, normal_vector, shadow_state)
LightingCall ==
    /\ op = "none"
    /\ \E light \in LightLights, position \in LightPositions, eye \in LightEyes,
          normal \in LightNormals, shadow_state \in ShadowStates :
        /\ op' = "lighting"
        /\ arg' = [light |-> light, position |-> position, eye |-> eye,
                   normal |-> normal, shadow_state |-> shadow_state]
        /\ res' = Lighting(phong, light, position, eye, normal, shadow_state)
    /\ UNCHANGED <<xs, status, world, sphere, phong, renderVars, stepVars>>

NextLight ==
    \/ LightingCall
    \/ Return

SpecLight == InitLight /\ [][NextLight]_vars

(***************************************************************************)
(* Canvas (canvas.rs)                                                      *)
(***************************************************************************)
\* Canvas::new: width * height pixels, each Color::default()
NewCanvas(width, height) ==
    [width |-> width, height |-> height,
     pixels |-> [i \in 0..(width * height - 1) |-> Black]]

\* Canvas::pixel_index_at
PixelIndexAt(c, x, y) == y * c.width + x

\* Canvas::write_pixel that keeps the colour of a pixel written before.
WritePixelOnce(c, x, y, color) ==
    IF PixelIndexAt(c, x, y) \in DOMAIN c.pixels
    THEN IF c.pixels[PixelIndexAt(c, x, y)] = Black
         THEN [c EXCEPT !.pixels[PixelIndexAt(c, x, y)] = color]
         ELSE c
    ELSE Panic

\* Canvas::write_pixel; an index past the end of pixels panics
WritePixel(c, x, y, color) ==
    IF PixelIndexAt(c, x, y) \in DOMAIN c.pixels
    THEN [c EXCEPT !.pixels[PixelIndexAt(c, x, y)] = color]
    ELSE Panic

\* Canvas::read_pixel, the index in range
ReadPixel(c, x, y) == c.pixels[PixelIndexAt(c, x, y)]

(***************************************************************************)
(* Colours as bytes (color.rs to_bytes, canvas/to_rgba.rs).  A byte is a    *)
(* whole number 0..255, not a fixed-point value.                            *)
(***************************************************************************)
\* f64::clamp(lo, hi): NaN stays NaN
F64Clamp(x, lo, hi) ==
    IF x = FNaN THEN FNaN ELSE IF x < lo THEN lo ELSE IF x > hi THEN hi ELSE x

\* f64::round that drops the fraction.
RoundTowardZero(x) == IF x = FNaN THEN FNaN ELSE TruncDiv(x, Scale) * Scale

\* f64::round: to the nearest whole number, halves away from zero
Round(x) ==
    IF x = FNaN THEN FNaN
    ELSE IF x >= 0 THEN ((x + Half) \div Scale) * Scale
    ELSE -(((Half - x) \div Scale) * Scale)

\* `as u8` of an f64: the whole part, saturating at 0 and 255, and 0 for NaN
AsU8(x) ==
    IF x = FNaN THEN 0
    ELSE IF x <= 0 THEN 0
    ELSE IF x >= 255 * One THEN 255
    ELSE x \div Scale

\* Color::to_bytes: <<r, g, b>>
ToBytes(color) ==
    LET scaled == ColorScale(color, 255 * One)
    IN << AsU8(Round(F64Clamp(scaled[0], 0, 255 * One))),
          AsU8(Round(F64Clamp(scaled[1], 0, 255 * One))),
          AsU8(Round(F64Clamp(scaled[2], 0, 255 * One))) >>

\* Color::clamp(min, max) of the generic Color: each channel clamped
ColorClamp(color, min, max) ==
    NewColor(F64Clamp(color[0], min, max), F64Clamp(color[1], min, max),
             F64Clamp(color[2], min, max))

\* ToPrimitive::to_u8 of an f64: None (NoByte) for NaN and outside -1 < x < 256
NoByte == 256
ToU8(x) ==
    IF x = FNaN \/ x <= -One \/ x >= 256 * One THEN NoByte
    ELSE TruncDiv(x, Scale)

\* The r, g, b, alpha that to_rgba pushes for one pixel; unwrap() of a None
\* panics
RgbaOfPixel(pixel) ==
    LET clamped == ColorClamp(pixel, 0, One)
        r == ToU8(Round(NMul(clamped[0], 255 * One)))
        g == ToU8(Round(NMul(clamped[1], 255 * One)))
        b == ToU8(Round(NMul(clamped[2], 255 * One)))
    IN IF NoByte \in {r, g, b} THEN Panic ELSE <<r, g, b, 255>>

RECURSIVE RgbaFrom(_, _)
\* The loop of to_rgba from pixel k on: [ok, data]
RgbaFrom(pixels, k) ==
    IF k \notin DOMAIN pixels THEN [ok |-> TRUE, data |-> <<>>]
    ELSE LET one == RgbaOfPixel(pixels[k])
             rest == RgbaFrom(pixels, k + 1)
         IN IF one = Panic \/ ~rest.ok THEN [ok |-> FALSE, data |-> <<>>]
            ELSE [ok |-> TRUE, data |-> one \o rest.data]

\* ToRGBA::to_rgba: [ok, data]; ~ok is a panic
ToRgba(c) == RgbaFrom(c.pixels, 0)

(***************************************************************************)
(* The PPM encoders (canvas/to_ppm.rs and canvas.rs).  The Vec<u8> built is *)
(* a sequence of characters.                                               *)
(***************************************************************************)
Digits == <<"0", "1", "2", "3", "4", "5", "6", "7", "8", "9">>

RECURSIVE FormatNat(_)
\* format!("{}", n), n a u8 or a usize: the decimal digits of n
FormatNat(n) ==
    IF n < 10 THEN <<Digits[n + 1]>>
    ELSE Append(FormatNat(n \div 10), Digits[(n % 10) + 1])

\* The longest line of pixel data
LineLimit == 70

\* The body of the inner loop that does not count the leading space.
PpmComponentNoSpaceCounted(st, comp) ==
    LET wrapped == IF st.row_width + Len(comp) > LineLimit
                   THEN [st EXCEPT !.res = Append(@, "\n"), !.row_width = 0]
                   ELSE st
        spaced == IF wrapped.row_width # 0
                  THEN [wrapped EXCEPT !.res = Append(@, " "), !.row_width = @ + 1]
                  ELSE wrapped
    IN [spaced EXCEPT !.res = @ \o comp, !.row_width = @ + Len(comp)]

\* The body of the inner loop, for one component comp: st is
\* [res, row_width, pixels_written]
PpmComponent(st, comp) ==
    LET want_to_write == IF st.row_width = 0 THEN Len(comp) ELSE 1 + Len(comp)
        wrapped == IF st.row_width + want_to_write > LineLimit
                   THEN [st EXCEPT !.res = Append(@, "\n"), !.row_width = 0]
                   ELSE st
        spaced == IF wrapped.row_width # 0
                  THEN [wrapped EXCEPT !.res = Append(@, " "), !.row_width = @ + 1]
                  ELSE wrapped
    IN [spaced EXCEPT !.res = @ \o comp, !.row_width = @ + Len(comp)]

\* The end of the outer loop's body: a newline after a width's worth of pixels
PpmPixelWritten(st, width) ==
    IF st.pixels_written + 1 = width
    THEN [st EXCEPT !.res = Append(@, "\n"), !.pixels_written = 0, !.row_width = 0]
    ELSE [st EXCEPT !.pixels_written = @ + 1]

\* The body of the outer loop for the pixel of bytes r, g, b
PpmPixel(st, r, g, b, width) ==
    PpmPixelWritten(
        PpmComponent(PpmComponent(PpmComponent(st, FormatNat(r)), FormatNat(g)),
                     FormatNat(b)),
        width)

RECURSIVE PpmFromRgba(_, _, _, _)
\* for bytes in self.to_rgba().chunks(4), from chunk k on; the alpha is skipped.
\* (pixels_written is below width at the top of the loop, so the second test
\* never ends it: reading it has TLC compute st before the next iteration.)
PpmFromRgba(data, k, st, width) ==
    IF 4 * k >= Len(data) \/ st.pixels_written >= width THEN st.res
    ELSE PpmFromRgba(data, k + 1,
                     PpmPixel(st, data[4 * k + 1], data[4 * k + 2], data[4 * k + 3], width),
                     width)

\* ToPPM::ppm_header: "P3\n{width} {height}\n255\n"
PpmHeader(c) ==
    <<"P", "3", "\n">> \o FormatNat(c.width) \o <<" ">> \o FormatNat(c.height)
        \o <<"\n", "2", "5", "5", "\n">>

\* ToPPM::to_ppm, rgba being self.to_rgba()
ToPpmOf(c, rgba) ==
    IF ~rgba.ok THEN Panic
    ELSE PpmFromRgba(rgba.data, 0,
                     [res |-> PpmHeader(c), row_width |-> 0, pixels_written |-> 0],
                     c.width)

\* ToPPM::to_ppm
ToPpm(c) == ToPpmOf(c, ToRgba(c))

RECURSIVE PpmFromPixels(_, _, _, _)
\* Canvas::create_ppm_pixel_data: for px in self.pixels.iter(), from pixel k on
PpmFromPixels(pixels, k, st, width) ==
    IF k \notin DOMAIN pixels \/ st.pixels_written >= width THEN st.res
    ELSE PpmFromPixels(pixels, k + 1,
                       PpmPixel(st, ToBytes(pixels[k])[1], ToBytes(pixels[k])[2],
                                ToBytes(pixels[k])[3], width),
                       width)

RECURSIVE MaxByteFrom(_, _, _)
\* The fold of Canvas::create_ppm_header: the largest byte of the pixels
MaxByteFrom(pixels, k, a) ==
    IF k \notin DOMAIN pixels THEN a
    ELSE LET bytes == ToBytes(pixels[k])
             m == IF bytes[1] >= bytes[2] /\ bytes[1] >= bytes[3] THEN bytes[1]
                  ELSE IF bytes[2] >= bytes[3] THEN bytes[2] ELSE bytes[3]
         IN MaxByteFrom(pixels, k + 1, IF m > a THEN m ELSE a)

\* Canvas::to_ppm of canvas.rs: create_ppm_header, then create_ppm_pixel_data
CanvasToPpm(c) ==
    PpmFromPixels(c.pixels, 0,
                  [res |-> <<"P", "3", "\n">> \o FormatNat(c.width) \o <<" ">>
                               \o FormatNat(c.height) \o <<"\n">>
                               \o FormatNat(MaxByteFrom(c.pixels, 0, 0)) \o <<"\n">>,
                   row_width |-> 0, pixels_written |-> 0],
                  c.width)

(***************************************************************************)
(* The parallel render loop of the binaries (bin/camera.rs,                *)
(* bin/animation.rs): the items of the iterator are handed out one at a    *)
(* time to the worker threads; each worker runs the closure on its item,   *)
(* one statement a step, and then asks for the next.                       *)
(***************************************************************************)
Workers == 1..NumWorkers

\* (0..canvas_height).cartesian_product(0..canvas_width): (row, col), the rows
\* in order and the columns in order within a row
RenderItems ==
    [k \in 1..(CanvasHeight * CanvasWidth) |->
        <<(k - 1) \div CanvasWidth, (k - 1) % CanvasWidth>>]

\* The scene: a sphere of radius 2 at the origin and a light above, to the
\* left and behind the camera, so that no two pixels have the same colour.
RenderWorld ==
    NewWorld(<<NewSphere(Scaling(2 * One, 2 * One, 2 * One), DefaultPhong)>>,
             <<NewPointLight(NewPoint(-10 * One, 5 * One, -10 * One),
                             NewColor(One, One, One))>>)

WorkerIdle == [pc |-> "idle", item |-> <<>>, color |-> <<>>]

InitRender ==
    /\ xs = <<>> /\ status = "unbuilt"
    /\ sphere = <<>> /\ phong = <<>>
    /\ op = "none" /\ arg = <<>> /\ res = <<>>
    /\ world = RenderWorld
    /\ queue = RenderItems
    /\ worker = [w \in Workers |-> WorkerIdle]
    /\ lock = 0
    /\ canvas = NewCanvas(CanvasWidth, CanvasHeight)
    /\ writes = [p \in (0..(CanvasWidth - 1)) \X (0..(CanvasHeight - 1)) |-> 0]
    /\ progress = 0
    /\ done = FALSE
    /\ StepIdle

\* par_bridge hands the next item of the iterator to a worker that asks.
WorkerTake(w) ==
    /\ worker[w].pc = "idle"
    /\ queue # <<>>
    /\ worker' = [worker EXCEPT ![w] = [pc |-> "taken", item |-> Head(queue), color |-> <<>>]]
    /\ queue' = Tail(queue)
    /\ UNCHANGED <<xs, status, world, sphere, phong, op, arg, res, stepVars,
                   lock, canvas, writes, progress, done>>

\* let color = world.color_at(camera.ray_for_pixel(col, row)); a panic of
\* color_at ends the worker.
WorkerColorAt(w) ==
    /\ worker[w].pc = "taken"
    /\ LET row == worker[w].item[1]
           col == worker[w].item[2]
           c == ColorAt(world, RayForPixel(RenderCamera, col, row))
       IN worker' = [worker EXCEPT ![w] =
                        IF c.ok THEN [@ EXCEPT !.pc = "computed", !.color = c.color]
                        ELSE [@ EXCEPT !.pc = "panicked"]]
    /\ UNCHANGED <<xs, status, world, sphere, phong, op, arg, res, stepVars,
                   queue, lock, canvas, writes, progress, done>>

\* let mut canvas = canvas_mutex.lock().unwrap(): waits while another holds it
WorkerLock(w) ==
    /\ worker[w].pc = "computed"
    /\ lock = 0
    /\ lock' = w
    /\ worker' = [worker EXCEPT ![w].pc = "locked"]
    /\ UNCHANGED <<xs, status, world, sphere, phong, op, arg, res, stepVars,
                   queue, canvas, writes, progress, done>>

\* canvas.write_pixel(col, row, color) written with row and col exchanged.
WorkerWritePixelTransposed(w) ==
    /\ worker[w].pc = "locked"
    /\ canvas' = WritePixel(canvas, worker[w].item[1], worker[w].item[2], worker[w].color)
    /\ writes' = [writes EXCEPT ![<<worker[w].item[2], worker[w].item[1]>>] = @ + 1]
    /\ progress' = progress + 1
    /\ worker' = [worker EXCEPT ![w].pc = "written"]
    /\ UNCHANGED <<xs, status, world, sphere, phong, op, arg, res, stepVars, queue, lock, done>>

\* canvas.write_pixel(col, row, color); progress.inc(1);
WorkerWritePixel(w) ==
    /\ worker[w].pc = "locked"
    /\ canvas' = WritePixel(canvas, worker[w].item[2], worker[w].item[1], worker[w].color)
    /\ writes' = [writes EXCEPT ![<<worker[w].item[2], worker[w].item[1]>>] = @ + 1]
    /\ progress' = progress + 1
    /\ worker' = [worker EXCEPT ![w].pc = "written"]
    /\ UNCHANGED <<xs, status, world, sphere, phong, op, arg, res, stepVars, queue, lock, done>>

\* The end of the closure drops the guard; the worker asks for the next item.
WorkerUnlock(w) ==
    /\ worker[w].pc = "written"
    /\ lock' = 0
    /\ worker' = [worker EXCEPT ![w] = WorkerIdle]
    /\ UNCHANGED <<xs, status, world, sphere, phong, op, arg, res, stepVars,
                   queue, canvas, writes, progress, done>>

\* for_each returns: the iterator is exhausted and every closure has ended.
ForEachReturns ==
    /\ ~done
    /\ queue = <<>>
    /\ \A w \in Workers : worker[w].pc = "idle"
    /\ done' = TRUE
    /\ UNCHANGED <<xs, status, world, sphere, phong, op, arg, res, stepVars,
                   queue, worker, lock, canvas, writes, progress>>

NextRender ==
    \/ \E w \in Workers : WorkerTake(w)
    \/ \E w \in Workers : WorkerColorAt(w)
    \/ \E w \in Workers : WorkerLock(w)
    \/ \E w \in Workers : WorkerWritePixel(w)
    \/ \E w \in Workers : WorkerUnlock(w)
    \/ ForEachReturns

SpecRender == InitRender /\ [][NextRender]_vars

(***************************************************************************)
(* The Canvas as an object: write_pixel and read_pixel calls of a caller    *)
(* that keeps to the canvas (SpecCanvas), and of one that also passes       *)
(* coordinates outside it (SpecCanvasAny).                                  *)
(***************************************************************************)
\* Canvas::new(width, height) of the callers
CanvasSizes == {<<2, 2>>, <<3, 1>>, <<1, 3>>}

\* The colours written.
CanvasColors == {NewColor(One, 0, 0), NewColor(One, One, One)}

InitCanvas ==
    /\ xs = <<>> /\ status = "unbuilt"
    /\ world = [bodies |-> <<>>, lights |-> <<>>]
    /\ sphere = <<>> /\ phong = <<>>
    /\ op = "none" /\ arg = <<>> /\ res = <<>>
    /\ \E size \in CanvasSizes : canvas = NewCanvas(size[1], size[2])
    /\ queue = <<>> /\ worker = <<>> /\ lock = 0
    /\ writes = <<>> /\ progress = 0 /\ done = FALSE
    /\ lastWrite = <<>> /\ pc = "none" /\ locals = <<>>

\* canvas.write_pixel(x, y, c); a panic leaves the canvas as it was
CanvasWrite(x, y, c) ==
    /\ op' = "write_pixel" /\ arg' = [x |-> x, y |-> y, c |-> c]
    /\ LET written == WritePixel(canvas, x, y, c)
       IN IF written = Panic
          THEN res' = Panic /\ canvas' = canvas
          ELSE res' = <<>> /\ canvas' = written
    /\ lastWrite' = IF x < canvas.width /\ y < canvas.height
                    THEN (<<x, y>> :> c) @@ lastWrite
                    ELSE lastWrite
    /\ UNCHANGED <<xs, status, world, sphere, phong,
                   queue, worker, lock, writes, progress, done, pc, locals>>

\* canvas.write_pixel(x, y, c) with 0 <= x < width and 0 <= y < height
CanvasWritePixelCall ==
    \E x \in 0..(canvas.width - 1), y \in 0..(canvas.height - 1), c \in CanvasColors :
        CanvasWrite(x, y, c)

\* canvas.write_pixel(x, y, c) with x or y one past the canvas
CanvasWritePixelOutsideCall ==
    \E x \in 0..canvas.width, y \in 0..canvas.height, c \in CanvasColors :
        /\ x = canvas.width \/ y = canvas.height
        /\ CanvasWrite(x, y, c)

\* canvas.read_pixel(x, y) with 0 <= x < width and 0 <= y < height
CanvasReadPixelCall ==
    /\ \E x \in 0..(canvas.width - 1), y \in 0..(canvas.height - 1) :
        /\ op' = "read_pixel" /\ arg' = [x |-> x, y |-> y]
        /\ res' = ReadPixel(canvas, x, y)
    /\ UNCHANGED <<xs, status, world, sphere, phong, renderVars, stepVars>>

NextCanvas ==
    \/ CanvasWritePixelCall
    \/ CanvasReadPixelCall

SpecCanvas == InitCanvas /\ [][NextCanvas]_vars

NextCanvasAny ==
    \/ CanvasWritePixelCall
    \/ CanvasWritePixelOutsideCall
    \/ CanvasReadPixelCall

SpecCanvasAny == InitCanvas /\ [][NextCanvasAny]_vars

(***************************************************************************)
(* Colours converted to bytes by the two encoders                          *)
(***************************************************************************)
\* The channels of an input colour lie between -MaxChannel and 2 * MaxChannel,
\* in steps of 0.001.
MaxChannel == 2
ChannelValues == (-MaxChannel * One)..(MaxChannel * One)

\* The colours converted: the three channels at different places of the
\* range, and colours with a NaN channel (to_bytes only).
ChannelColors == {NewColor(c, One - c, 2 * c) : c \in ChannelValues}
NaNColors == {NewColor(FNaN, 0, One), NewColor(Half, FNaN, FNaN)}

\* Canvas::new(1, 1) with its pixel written
CanvasOf(color) == WritePixel(NewCanvas(1, 1), 0, 0, color)

InitBytes ==
    /\ xs = <<>> /\ status = "unbuilt"
    /\ InitIdle
    /\ op = "none" /\ arg = <<>> /\ res = <<>>

\* color.to_bytes()
ColorToBytesCall ==
    /\ op = "none"
    /\ \E color \in ChannelColors \cup NaNColors :
        op' = "to_bytes" /\ arg' = color /\ res' = ToBytes(color)
    /\ UNCHANGED <<xs, status, world, sphere, phong, renderVars, stepVars>>

\* canvas.to_rgba(), the canvas of one pixel
CanvasToRgbaCall ==
    /\ op = "none"
    /\ \E color \in ChannelColors :
        /\ op' = "to_rgba" /\ arg' = color
        /\ res' = LET rgba == ToRgba(CanvasOf(color))
                  IN IF rgba.ok THEN rgba.data ELSE Panic
    /\ UNCHANGED <<xs, status, world, sphere, phong, renderVars, stepVars>>

NextBytes ==
    \/ ColorToBytesCall
    \/ CanvasToRgbaCall
    \/ Return

SpecBytes == InitBytes /\ [][NextBytes]_vars

(***************************************************************************)
(* Canvases encoded as PPM                                                 *)
(***************************************************************************)
\* The canvases encoded are up to MaxPpmWidth wide and one or two rows high.
MaxPpmWidth == 12
PpmHeights == {1, 2}

\* Colours whose bytes have one, two and three digits: 0 0 0, 255 255 255,
\* 255 255 50 and 255 204 153.
PpmPalette ==
    { Black, NewColor(One, One, One), NewColor(One, One, 196),
      NewColor(One, (8 * One) \div 10, (6 * One) \div 10) }

\* The canvas of the given size after write_pixel for each of its pixels: the
\* first pixel of each row is head, the others follow the pattern pat.
PpmCanvas(width, height, head, pat) ==
    [width |-> width, height |-> height,
     pixels |-> Array([i \in 0..(width * height - 1) |->
                   IF i % width = 0 THEN head ELSE pat[(i % Len(pat)) + 1]])]

PpmCanvases ==
    {PpmCanvas(w, h, head, pat) :
        w \in 1..MaxPpmWidth, h \in PpmHeights, head \in PpmPalette,
        pat \in SeqsUpTo(PpmPalette, 2) \ {<<>>}}

InitPpm ==
    /\ xs = <<>> /\ status = "unbuilt"
    /\ world = [bodies |-> <<>>, lights |-> <<>>]
    /\ sphere = <<>> /\ phong = <<>>
    /\ op = "none" /\ arg = <<>> /\ res = <<>>
    /\ canvas \in PpmCanvases
    /\ queue = <<>> /\ worker = <<>> /\ lock = 0
    /\ writes = <<>> /\ progress = 0 /\ done = FALSE
    /\ StepIdle

\* canvas.to_ppm() of the trait ToPPM
CanvasToPpmCall ==
    /\ op = "none"
    /\ op' = "to_ppm" /\ arg' = <<>> /\ res' = ToPpm(canvas)
    /\ UNCHANGED <<xs, status, world, sphere, phong, renderVars, stepVars>>

\* canvas.to_ppm() of canvas.rs
CanvasOwnToPpmCall ==
    /\ op = "none"
    /\ op' = "canvas_to_ppm" /\ arg' = <<>> /\ res' = CanvasToPpm(canvas)
    /\ UNCHANGED <<xs, status, world, sphere, phong, renderVars, stepVars>>

NextPpm ==
    \/ CanvasToPpmCall
    \/ CanvasOwnToPpmCall
    \/ Return

SpecPpm == InitPpm /\ [][NextPpm]_vars

(***************************************************************************)
(* color_at step by step: one action per pass of a loop on its path.  pc    *)
(* is the loop the computation is in and locals the variables of that loop. *)
(* "returned" and "panicked" are the two ways a computation ends.           *)
(***************************************************************************)
\* The lights of the step-by-step runs: none or the first one.
StepLights ==
    SeqsUpTo({NewPointLight(NewPoint(-10 * One, 10 * One, -10 * One), NewColor(One, One, One))}, 1)

\* body.intersect(ray) of each body and ray of the runs, computed once.
BodyIntersections ==
    Array([br \in WorldBodies \X WorldRays |-> SphereIntersect(br[1], br[2])])

\* What color_at does with each hit there can be, computed once.
HitColors ==
    Array([lx \in StepLights \X UNION {Range(BodyIntersections[br].seq) : br \in WorldBodies \X WorldRays} |->
              ShadeHit(NewWorld(<<>>, lx[1]), SomeHit(1, lx[2]), "Clear")])

\* color_at from `if let Some(hit) = hit` on
ShadeOf(w, hit) ==
    IF hit.some THEN HitColors[<<w.lights, hit.val>>] ELSE ShadeHit(w, hit, "Clear")

\* World::intersect: one body of self.bodies.iter().flat_map(..).collect();
\* l = [k, xss], k the next body and xss what is collected
IntersectBody(l, w, ray) ==
    IF l.k > Len(w.bodies) THEN [pc |-> "sort", l |-> [seq |-> <<>>, rest |-> l.xss]]
    ELSE LET one == BodyIntersections[<<w.bodies[l.k], ray>>]
         IN IF one.ok THEN [pc |-> "intersect", l |-> [k |-> l.k + 1, xss |-> l.xss \o one.seq]]
            ELSE [pc |-> "panicked", l |-> l]

\* Intersections::from: one pass of the sort's outer loop; l = [seq, rest],
\* seq the sorted part
SortPass(l) ==
    IF l.rest = <<>> THEN [pc |-> "hit", l |-> [seq |-> l.seq, i |-> 1]]
    ELSE LET r == InsertTail(l.seq, Head(l.rest))
         IN IF r.ok THEN [pc |-> "sort", l |-> [seq |-> r.seq, rest |-> Tail(l.rest)]]
            ELSE [pc |-> "panicked", l |-> l]

\* Intersections::hit: one pass of its for loop; l = [seq, i]
HitPass(l) ==
    IF l.i > Len(l.seq) THEN [pc |-> "shade", l |-> [hit |-> NoHit]]
    ELSE IF GtZero(l.seq[l.i].t) THEN [pc |-> "shade", l |-> [hit |-> SomeHit(l.i, l.seq[l.i])]]
    ELSE [pc |-> "hit", l |-> [seq |-> l.seq, i |-> l.i + 1]]

\* The outer while loop of submatrix, one pass; l = [res, source_row,
\* source_col, target_row, target_col]
SubmatrixRowPass(l, n, remove_row) ==
    IF l.source_row >= n THEN [pc |-> "returned", l |-> l]
    ELSE IF l.source_row = remove_row
         THEN [pc |-> "rows", l |-> [l EXCEPT !.source_row = @ + 1]]
    ELSE [pc |-> "cols", l |-> l]

\* The inner while loop whose `continue` leaves source_col as it is.
SubmatrixColPassNoAdvance(l, m, n, remove_col) ==
    IF l.source_col >= n
    THEN [pc |-> "rows",
          l |-> [l EXCEPT !.source_row = @ + 1, !.target_row = @ + 1,
                          !.source_col = 0, !.target_col = 0]]
    ELSE IF l.source_col = remove_col
         THEN [pc |-> "cols", l |-> l]
    ELSE IF l.target_row >= n - 1 \/ l.target_col >= n - 1 THEN [pc |-> "panicked", l |-> l]
    ELSE [pc |-> "cols",
          l |-> [l EXCEPT !.res[l.target_row][l.target_col] = m[l.source_row][l.source_col],
                          !.source_col = @ + 1, !.target_col = @ + 1]]

\* The inner while loop of submatrix, one pass, and what follows it when it
\* is over; writing res past its last row or column panics
SubmatrixColPass(l, m, n, remove_col) ==
    IF l.source_col >= n
    THEN [pc |-> "rows",
          l |-> [l EXCEPT !.source_row = @ + 1, !.target_row = @ + 1,
                          !.source_col = 0, !.target_col = 0]]
    ELSE IF l.source_col = remove_col
         THEN [pc |-> "cols", l |-> [l EXCEPT !.source_col = @ + 1]]
    ELSE IF l.target_row >= n - 1 \/ l.target_col >= n - 1 THEN [pc |-> "panicked", l |-> l]
    ELSE [pc |-> "cols",
          l |-> [l EXCEPT !.res[l.target_row][l.target_col] = m[l.source_row][l.source_col],
                          !.source_col = @ + 1, !.target_col = @ + 1]]

\* The worlds of the step-by-step runs: no light or the first one.
StepWorlds == {NewWorld(b, l) : b \in SeqsUpTo(WorldBodies, MaxBodies), l \in StepLights}

\* The matrices submatrix is given on the way to an inverse: the transform of
\* the last body, and what minor takes from it for its determinant.
StepMatrices(w) ==
    IF w.bodies = <<>> THEN {}
    ELSE LET t == w.bodies[Len(w.bodies)].transform
         IN {[m |-> t, n |-> 4], [m |-> Submatrix(t, 4, 0, 0), n |-> 3]}

InitSteps ==
    /\ xs = <<>> /\ status = "unbuilt"
    /\ sphere = <<>>
    /\ phong = <<>>
    /\ world \in StepWorlds
    /\ RenderIdle /\ StepIdle
    /\ op = "none" /\ arg = <<>> /\ res = <<>>

stepUnchanged == <<xs, status, world, sphere, phong, renderVars, lastWrite>>

\* world.color_at(ray) is entered
ColorAtBegin ==
    /\ op = "none" /\ pc = "none"
    /\ \E r \in WorldRays :
        /\ op' = "color_at" /\ arg' = r
        /\ pc' = "intersect" /\ locals' = [k |-> 1, xss |-> <<>>]
    /\ UNCHANGED <<res, stepUnchanged>>

IntersectStep ==
    /\ op = "color_at" /\ pc = "intersect"
    /\ LET next == IntersectBody(locals, world, arg)
       IN pc' = next.pc /\ locals' = next.l
    /\ UNCHANGED <<op, arg, res, stepUnchanged>>

SortStep ==
    /\ op = "color_at" /\ pc = "sort"
    /\ LET next == SortPass(locals)
       IN pc' = next.pc /\ locals' = next.l
    /\ UNCHANGED <<op, arg, res, stepUnchanged>>

HitStep ==
    /\ op = "color_at" /\ pc = "hit"
    /\ LET next == HitPass(locals)
       IN pc' = next.pc /\ locals' = next.l
    /\ UNCHANGED <<op, arg, res, stepUnchanged>>

\* color_at after hit(): the lighting of the hit, or black
ShadeStep ==
    /\ op = "color_at" /\ pc = "shade"
    /\ res' = ShadeOf(world, locals.hit)
    /\ pc' = IF res'.ok THEN "returned" ELSE "panicked"
    /\ UNCHANGED <<op, arg, locals, stepUnchanged>>

\* m.submatrix(remove_row, remove_col) is entered, with every row and column
\* argument up to one past the size
SubmatrixBegin ==
    /\ op = "none" /\ pc = "none"
    /\ \E mn \in StepMatrices(world) : \E remove_row \in 0..(mn.n + 1), remove_col \in 0..(mn.n + 1) :
        /\ op' = "submatrix"
        /\ arg' = [m |-> mn.m, n |-> mn.n, remove_row |-> remove_row, remove_col |-> remove_col]
        /\ pc' = "rows"
        /\ locals' = [res |-> ZeroMatrix(mn.n - 1), source_row |-> 0, source_col |-> 0,
                      target_row |-> 0, target_col |-> 0]
    /\ UNCHANGED <<res, stepUnchanged>>

SubmatrixRowStep ==
    /\ op = "submatrix" /\ pc = "rows"
    /\ LET next == SubmatrixRowPass(locals, arg.n, arg.remove_row)
       IN /\ pc' = next.pc /\ locals' = next.l
          /\ res' = IF next.pc = "returned" THEN locals.res ELSE res
    /\ UNCHANGED <<op, arg, stepUnchanged>>

SubmatrixColStep ==
    /\ op = "submatrix" /\ pc = "cols"
    /\ LET next == SubmatrixColPass(locals, arg.m, arg.n, arg.remove_col)
       IN pc' = next.pc /\ locals' = next.l
    /\ UNCHANGED <<op, arg, res, stepUnchanged>>

\* The caller is done with the result, or the panic has been reported.
StepReturn ==
    /\ pc \in {"returned", "panicked"}
    /\ op' = "none" /\ arg' = <<>> /\ res' = <<>>
    /\ pc' = "none" /\ locals' = <<>>
    /\ UNCHANGED stepUnchanged

\* A pass of a loop, or the step after the loops.
StepRun ==
    \/ IntersectStep
    \/ SortStep
    \/ HitStep
    \/ ShadeStep
    \/ SubmatrixRowStep
    \/ SubmatrixColStep

NextSteps ==
    \/ ColorAtBegin
    \/ SubmatrixBegin
    \/ StepRun
    \/ StepReturn

SpecSteps == InitSteps /\ [][NextSteps]_vars

\* The thread that computes keeps running until the computation ends; nothing
\* makes a caller begin one.
SpecStepsFair == SpecSteps /\ WF_vars(StepRun)

(***************************************************************************)
(* The Animator (animator.rs) and the closure bin/animation.rs gives it.    *)
(* Breakpoints may be infinite: FInf and -FInf stand for the infinities.    *)
(***************************************************************************)
\* f64::INFINITY
FInf == 2000000000

\* a + b, a - b and a * b of f64 values that may be infinite or NaN
EAdd(a, b) ==
    IF a = FNaN \/ b = FNaN THEN FNaN
    ELSE IF a \in {FInf, -FInf} THEN (IF b = -a THEN FNaN ELSE a)
    ELSE IF b \in {FInf, -FInf} THEN b
    ELSE a + b
ESub(a, b) == EAdd(a, IF b = FNaN THEN FNaN ELSE -b)
EMul(a, b) ==
    IF a = FNaN \/ b = FNaN THEN FNaN
    ELSE IF a \in {FInf, -FInf} \/ b \in {FInf, -FInf}
         THEN (IF a = 0 \/ b = 0 THEN FNaN
               ELSE IF (a > 0) = (b > 0) THEN FInf ELSE -FInf)
    ELSE FMul(a, b)

\* Frame::new
NewFrame(current, count) == [current |-> current, count |-> count]

\* Frame::linear_scale with the domain ending at the last frame, count - 1.
LinearScaleToLastFrame(frame) ==
    [domain |-> <<0, (frame.count - 1) * One>>, breakpoints |-> <<>>]

\* Frame::linear_scale: the domain is (0.0, count as f64)
LinearScale(frame) == [domain |-> <<0, frame.count * One>>, breakpoints |-> <<>>]

\* LinearScale::with_breakpoints (the range its loop computes is dropped)
WithBreakpoints(ls, breakpoints) == [ls EXCEPT !.breakpoints = breakpoints]

\* normalize_progress
NormalizeProgress(input, domain) == NDiv(NSub(input, domain[1]), NSub(domain[2], domain[1]))

\* f64::floor of a value that is not negative
Floor(x) == IF x = FNaN THEN FNaN ELSE (x \div Scale) * Scale

\* f64 as usize of a whole value that is not negative: NaN gives 0
AsUsize(x) == IF x = FNaN THEN 0 ELSE x \div Scale

\* LinearScale::scale, from curr_index on: [reads, ok, value], reads being
\* the indexes of breakpoints it read (0-based) and ok false if one of them
\* is past the end, which panics
ScaleAt(ls, curr_index) ==
    LET lower == AsUsize(Floor(curr_index))
        slice_frac == NormalizeProgress(curr_index, <<Floor(curr_index), NAdd(Floor(curr_index), One)>>)
        n == Len(ls.breakpoints)
    IN IF lower >= n THEN [reads |-> {lower}, ok |-> FALSE, value |-> FNaN]
       ELSE IF lower + 1 >= n THEN [reads |-> {lower, lower + 1}, ok |-> FALSE, value |-> FNaN]
       ELSE [reads |-> {lower, lower + 1}, ok |-> TRUE,
             value |-> EAdd(ls.breakpoints[lower + 1],
                            EMul(slice_frac, ESub(ls.breakpoints[lower + 2],
                                                  ls.breakpoints[lower + 1])))]

\* LinearScale::scale(input), 0 <= input and the domain not empty
ScaleInput(ls, input) ==
    LET clamped_input == F64Clamp(input, ls.domain[1], ls.domain[2])
        frac == NormalizeProgress(clamped_input, ls.domain)
        num_slices == (Len(ls.breakpoints) - 1) * One
    IN ScaleAt(ls, NMul(frac, num_slices))

\* The closure of bin/animation.rs as far as the scale: what
\* frame.linear_scale().with_breakpoints(bs).scale(frame.current as f64) did
AnimateFrame(frame, bs) ==
    [current |-> frame.current,
     scaled |-> ScaleInput(WithBreakpoints(LinearScale(frame), bs), frame.current * One)]

RECURSIVE AnimateFrom(_, _, _)
\* Animator::animate: for current_frame in 0..self.frame_count, from
\* current_frame on; the calls of the closure in order, ended by a panic
AnimateFrom(frame_count, current_frame, bs) ==
    IF current_frame >= frame_count THEN <<>>
    ELSE LET call == AnimateFrame(NewFrame(current_frame, frame_count), bs)
         IN IF ~call.scaled.ok THEN <<call>>
            ELSE <<call>> \o AnimateFrom(frame_count, current_frame + 1, bs)

\* The frame counts and breakpoint lists of the callers.
MaxFrames == 4
MaxBreakpoints == 3
BreakpointValues == {-One, 0, One, 6283, FInf}
BreakpointLists == SeqsUpTo(BreakpointValues, MaxBreakpoints) \ {<<>>}

InitAnimator ==
    /\ xs = <<>> /\ status = "unbuilt"
    /\ InitIdle
    /\ op = "none" /\ arg = <<>> /\ res = <<>>

\* Animator::new(frame_count).animate(|frame| ..scale(frame.current as f64)..)
AnimateCall ==
    /\ op = "none"
    /\ \E frame_count \in 0..MaxFrames, bs \in BreakpointLists :
        /\ op' = "animate" /\ arg' = [frame_count |-> frame_count, bs |-> bs]
        /\ res' = AnimateFrom(frame_count, 0, bs)
    /\ UNCHANGED <<xs, status, world, sphere, phong, renderVars, stepVars>>

NextAnimator ==
    \/ AnimateCall
    \/ Return

SpecAnimator == InitAnimator /\ [][NextAnimator]_vars

(***************************************************************************)
(* Matrices as values: determinant and inverse of the matrices a caller    *)
(* can make with Matrix::from, and composed transforms applied to tuples.  *)
(***************************************************************************)
\* The entries of an input matrix are whole numbers from -1 to MaxEntry.
MaxEntry == 2

\* Row i of an n x n input: row i or row i + 1 of the identity (the latter
\* makes rows that repeat), its negation, a multiple, or the identity row
\* plus a multiple of the next column.
MatrixRowsAt(n, i) ==
    {Array([j \in 0..(n - 1) |-> IF j = k THEN One ELSE 0]) : k \in {i, (i + 1) % n}}
    \cup {Array([j \in 0..(n - 1) |-> IF j = i THEN -One ELSE 0])}
    \cup {Array([j \in 0..(n - 1) |-> IF j = i THEN c * One ELSE 0]) : c \in 2..MaxEntry}
    \cup {Array([j \in 0..(n - 1) |->
              IF j = i THEN One ELSE IF j = (i + 1) % n THEN c * One ELSE 0]) :
          c \in 1..MaxEntry}

\* Matrix::from([[..]; n])
Matrices(n) ==
    IF n = 2 THEN {(0 :> r0) @@ (1 :> r1) :
                      r0 \in MatrixRowsAt(2, 0), r1 \in MatrixRowsAt(2, 1)}
    ELSE IF n = 3 THEN {(0 :> r0) @@ (1 :> r1) @@ (2 :> r2) :
                      r0 \in MatrixRowsAt(3, 0), r1 \in MatrixRowsAt(3, 1),
                      r2 \in MatrixRowsAt(3, 2)}
    ELSE {(0 :> r0) @@ (1 :> r1) @@ (2 :> r2) @@ (3 :> r3) :
                      r0 \in MatrixRowsAt(4, 0), r1 \in MatrixRowsAt(4, 1),
                      r2 \in MatrixRowsAt(4, 2), r3 \in MatrixRowsAt(4, 3)}

\* The factors of a composed transform: a translation, a scaling, a quarter
\* turn about z and a shear of x by y, and the tuples it is applied to.
ComposeMatrices ==
    { Translate(One, -One, 2 * One), Scaling(2 * One, One, -One),
      (0 :> Tuple4(0, -One, 0, 0)) @@ (1 :> Tuple4(One, 0, 0, 0))
          @@ (2 :> Tuple4(0, 0, One, 0)) @@ (3 :> Tuple4(0, 0, 0, One)),
      (0 :> Tuple4(One, One, 0, 0)) @@ (1 :> Tuple4(0, One, 0, 0))
          @@ (2 :> Tuple4(0, 0, One, 0)) @@ (3 :> Tuple4(0, 0, 0, One)) }
ComposeTuples ==
    {NewPoint(One, 0, Half), NewPoint(-One, 2 * One, One), NewPoint(0, 0, 0),
     NewVector(One, 0, Half), NewVector(0, One, -One)}

InitMatrix ==
    /\ xs = <<>> /\ status = "unbuilt"
    /\ InitIdle
    /\ op = "none" /\ arg = <<>> /\ res = <<>>

\* m.determinant(), m of size 2, 3 or 4
MatrixDeterminantCall ==
    /\ op = "none"
    /\ \E n \in 2..4 : \E m \in Matrices(n) :
        op' = "determinant" /\ arg' = [m |-> m, n |-> n] /\ res' = Determinant(m, n)
    /\ UNCHANGED <<xs, status, world, sphere, phong, renderVars, stepVars>>

\* m.inverse(), m of size 3 or 4
MatrixInverseCall ==
    /\ op = "none"
    /\ \E n \in 3..4 : \E m \in Matrices(n) :
        /\ op' = "inverse" /\ arg' = [m |-> m, n |-> n]
        /\ res' = LET inv == Inverse(m, n) IN IF inv.ok THEN inv.m ELSE Panic
    /\ UNCHANGED <<xs, status, world, sphere, phong, renderVars, stepVars>>

\* (t * r * s) * p
MatrixTransformCall ==
    /\ op = "none"
    /\ \E t \in ComposeMatrices, r \in ComposeMatrices, s \in ComposeMatrices,
          p \in ComposeTuples :
        /\ op' = "transform" /\ arg' = [t |-> t, r |-> r, s |-> s, p |-> p]
        /\ res' = MatMulTuple(MatMul(MatMul(t, r, 4), s, 4), p)
    /\ UNCHANGED <<xs, status, world, sphere, phong, renderVars, stepVars>>

\* Input matrices whose entries all differ: entry (i, j) is i * n + j + k.
CountingMatrices(n) ==
    {Array([i \in 0..(n - 1) |-> Array([j \in 0..(n - 1) |-> (i * n + j + k) * One])]) :
        k \in 0..MaxEntry}

\* m.submatrix(remove_row, remove_col), m of size 3 or 4 and both in range
MatrixSubmatrixCall ==
    /\ op = "none"
    /\ \E n \in 3..4 : \E m \in CountingMatrices(n) \cup Matrices(3) :
        /\ n = Cardinality(DOMAIN m)
        /\ \E rr, rc \in 0..(n - 1) :
            /\ op' = "submatrix" /\ arg' = [m |-> m, n |-> n, rr |-> rr, rc |-> rc]
            /\ res' = Submatrix(m, n, rr, rc)
    /\ UNCHANGED <<xs, status, world, sphere, phong, renderVars, stepVars>>

\* The scalars a matrix is multiplied by.
MatrixScalars == {-One, 0, Half, 2 * One}

\* m * rhs, m of size 2, 3 or 4 and rhs a scalar
MatrixScaleCall ==
    /\ op = "none"
    /\ \E n \in 2..4 : \E m \in CountingMatrices(n) \cup {Identity(n)} :
        \E rhs \in MatrixScalars :
            /\ op' = "scale" /\ arg' = [m |-> m, n |-> n, rhs |-> rhs]
            /\ res' = MatScale(m, n, rhs)
    /\ UNCHANGED <<xs, status, world, sphere, phong, renderVars, stepVars>>

NextMatrix ==
    \/ MatrixDeterminantCall
    \/ MatrixInverseCall
    \/ MatrixTransformCall
    \/ MatrixSubmatrixCall
    \/ MatrixScaleCall
    \/ Return

SpecMatrix == InitMatrix /\ [][NextMatrix]_vars

(***************************************************************************)
(* Points and Vectors as values: the operations of point.rs, vector.rs and *)
(* tuple.rs, applied to constructed values and to the value the last       *)
(* operation returned.  res is [kind, data]: the Rust type and the array.  *)
(***************************************************************************)
\* An operand taken from the last result has components that are multiples of
\* 0.5 from -MaxCoord to MaxCoord (or NaN).
MaxCoord == 2

TupleCoords == {-One, 0, One}
TuplePoints == {NewPoint(x, y, 0) : x \in TupleCoords, y \in {0, One}}
TupleVectors == {NewVector(x, y, 0) : x \in TupleCoords, y \in {0, One}}
\* Scalars; none is 0 (a division by 0.0 of a component that is not 0 is
\* infinite).
TupleScalars == {Half, 2 * One}

OnGrid(t) ==
    \A i \in 0..3 : t[i] = FNaN \/ (Abs(t[i]) <= MaxCoord * One /\ t[i] % Half = 0)

\* The values of a type that an operation can be applied to.
LastOf(kind) ==
    IF op # "none" /\ res.kind = kind /\ OnGrid(res.data) THEN {res.data} ELSE {}
PointOperands == TuplePoints \cup LastOf("Point")
VectorOperands == TupleVectors \cup LastOf("Vector")

AsPoint(t) == [kind |-> "Point", data |-> t]
AsVector(t) == [kind |-> "Vector", data |-> t]

InitTuple ==
    /\ xs = <<>> /\ status = "unbuilt"
    /\ InitIdle
    /\ op = "none" /\ arg = <<>> /\ res = <<>>

\* a - b, Points
PointSubCall ==
    /\ \E a \in PointOperands, b \in TuplePoints :
        op' = "point_sub" /\ arg' = <<a, b>> /\ res' = AsVector(PointSub(a, b))
    /\ UNCHANGED <<xs, status, world, sphere, phong, renderVars, stepVars>>

\* a + v
PointAddCall ==
    /\ \E a \in PointOperands, v \in TupleVectors :
        op' = "point_add" /\ arg' = <<a, v>> /\ res' = AsPoint(PointAdd(a, v))
    /\ UNCHANGED <<xs, status, world, sphere, phong, renderVars, stepVars>>

\* Point::from(v)
PointFromVectorCall ==
    /\ \E v \in VectorOperands :
        op' = "point_from" /\ arg' = <<v>> /\ res' = AsPoint(PointFromVector(v))
    /\ UNCHANGED <<xs, status, world, sphere, phong, renderVars, stepVars>>

\* a * k, a Point
PointMulCall ==
    /\ \E a \in PointOperands, k \in TupleScalars :
        op' = "point_mul" /\ arg' = <<a, k>> /\ res' = AsPoint(TupleMul(a, k))
    /\ UNCHANGED <<xs, status, world, sphere, phong, renderVars, stepVars>>

\* a / k, a Point
PointDivCall ==
    /\ \E a \in PointOperands, k \in TupleScalars :
        op' = "point_div" /\ arg' = <<a, k>> /\ res' = AsPoint(TupleDiv(a, k))
    /\ UNCHANGED <<xs, status, world, sphere, phong, renderVars, stepVars>>

\* -a, a Point
PointNegCall ==
    /\ \E a \in PointOperands :
        op' = "point_neg" /\ arg' = <<a>> /\ res' = AsPoint(TupleNeg(a))
    /\ UNCHANGED <<xs, status, world, sphere, phong, renderVars, stepVars>>

\* v + u
VectorAddCall ==
    /\ \E v \in VectorOperands, u \in TupleVectors :
        op' = "vector_add" /\ arg' = <<v, u>> /\ res' = AsVector(VecAdd(v, u))
    /\ UNCHANGED <<xs, status, world, sphere, phong, renderVars, stepVars>>

\* v - u
VectorSubCall ==
    /\ \E v \in VectorOperands, u \in TupleVectors :
        op' = "vector_sub" /\ arg' = <<v, u>> /\ res' = AsVector(VecSub(v, u))
    /\ UNCHANGED <<xs, status, world, sphere, phong, renderVars, stepVars>>

\* v * k and k * v
VectorMulCall ==
    /\ \E v \in VectorOperands, k \in TupleScalars :
        op' = "vector_mul" /\ arg' = <<v, k>> /\ res' = AsVector(VecMul(v, k))
    /\ UNCHANGED <<xs, status, world, sphere, phong, renderVars, stepVars>>

\* v / k
VectorDivCall ==
    /\ \E v \in VectorOperands, k \in TupleScalars :
        op' = "vector_div" /\ arg' = <<v, k>> /\ res' = AsVector(VecDiv(v, k))
    /\ UNCHANGED <<xs, status, world, sphere, phong, renderVars, stepVars>>

\* -v
VectorNegCall ==
    /\ \E v \in VectorOperands :
        op' = "vector_neg" /\ arg' = <<v>> /\ res' = AsVector(VecNeg(v))
    /\ UNCHANGED <<xs, status, world, sphere, phong, renderVars, stepVars>>

\* v.normalize()
VectorNormalizeCall ==
    /\ \E v \in VectorOperands :
        op' = "normalize" /\ arg' = <<v>> /\ res' = AsVector(Normalize(v))
    /\ UNCHANGED <<xs, status, world, sphere, phong, renderVars, stepVars>>

NextTuple ==
    \/ PointSubCall
    \/ PointAddCall
    \/ PointFromVectorCall
    \/ PointMulCall
    \/ PointDivCall
    \/ PointNegCall
    \/ VectorAddCall
    \/ VectorSubCall
    \/ VectorMulCall
    \/ VectorDivCall
    \/ VectorNegCall
    \/ VectorNormalizeCall

SpecTuple == InitTuple /\ [][NextTuple]_vars

(***************************************************************************)
(* The Intersection as an object: computed() on the intersections a caller *)
(* can make with Intersection::new (t, ray and body are public).           *)
(***************************************************************************)
\* The t of an intersection is a multiple of 0.5 from -1 to MaxHalfT / 2, or NaN.
MaxHalfT == 12

IntersectionTs == {F(k * Half) : k \in (-2)..MaxHalfT} \cup {NaN}

\* Bodies with an invertible transform.
IntersectionBodies ==
    {NewSphere(t, DefaultPhong) :
        t \in {Identity(4), Scaling(2 * One, 2 * One, 2 * One), Translate(0, 0, One)}}

IntersectionInputs ==
    {NewIntersection(t, r, b) : t \in IntersectionTs, r \in UnitRays, b \in IntersectionBodies}

InitIntersection ==
    /\ xs = <<>> /\ status = "unbuilt"
    /\ InitIdle
    /\ op = "none" /\ arg = <<>> /\ res = <<>>

\* i.computed(), i = Intersection::new(t, ray, body)
ComputedCall ==
    /\ op = "none"
    /\ \E i \in IntersectionInputs :
        /\ op' = "computed" /\ arg' = i /\ res' = Computed(i)
    /\ UNCHANGED <<xs, status, world, sphere, phong, renderVars, stepVars>>

NextIntersection ==
    \/ ComputedCall
    \/ Return

SpecIntersection == InitIntersection /\ [][NextIntersection]_vars

(***************************************************************************)
(* Claims about Intersections (checked under SpecXs)                       *)
(***************************************************************************)
IsSorted(s) == \A i \in 1..(Len(s) - 1) : FLe(s[i].t, s[i + 1].t)

Count(e, s) == Cardinality({i \in 1..Len(s) : s[i] = e})

SameMultiset(a, b) ==
    /\ Len(a) = Len(b)
    /\ \A e \in Range(a) \cup Range(b) : Count(e, a) = Count(e, b)

HasNaN(s) == \E i \in 1..Len(s) : s[i].t.nan

\* C1: hit() returns the entry with the smallest strictly positive t (the first
\* such entry in ascending-t order), and never an entry with t <= 0.
C1_HitIsSmallestPositive ==
    op = "hit" =>
        /\ res.some => GtZero(res.val.t)
        /\ \A j \in 1..Len(xs) :
              GtZero(xs[j].t) => res.some /\ res.val.t.v <= xs[j].t.v

\* C2 as stated: hit() returns None, without failing, exactly when the
\* collection is empty or every entry has t <= 0.
C2_NoneIffAllNonPositive ==
    op = "hit" =>
        /\ status = "live"
        /\ (res = NoHit) <=> (\A j \in 1..Len(xs) : LeZero(xs[j].t))

\* C2 as amended: hit() returns None, without failing, exactly when no entry
\* has t > 0 (the collection is empty, or every entry has t <= 0 or a NaN t).
C2_NoneIffNoPositive ==
    op = "hit" =>
        /\ status = "live"
        /\ (res = NoHit) <=> ~(\E j \in 1..Len(xs) : GtZero(xs[j].t))

C2_Witness ==
    /\ op = "hit"
    /\ res = NoHit
    /\ Len(xs) = 2
    /\ \A j \in 1..Len(xs) : LeZero(xs[j].t)

\* C3 as stated: for every input vector v, from(v) holds exactly the elements
\* of v (same multiset, same length) in non-decreasing order of t.
C3_FromSortsEveryInput ==
    op = "from" =>
        /\ status = "live"
        /\ SameMultiset(xs, arg)
        /\ IsSorted(xs)

\* C3 as amended: for every input vector v with no NaN t, from(v) holds exactly
\* the elements of v in non-decreasing order of t; a vector of fewer than two
\* entries is kept as it is; a vector of two or more entries one of which has
\* a NaN t makes from(v) panic.
C3_FromSortsComparableInput ==
    op = "from" =>
        IF HasNaN(arg) /\ Len(arg) >= 2
        THEN status = "panicked"
        ELSE /\ status = "live"
             /\ SameMultiset(xs, arg)
             /\ IsSorted(xs)

C3_Witness ==
    /\ op = "from"
    /\ status = "live"
    /\ Len(arg) = 3
    /\ arg[1].t.v > arg[2].t.v
    /\ arg[2].t.v > arg[3].t.v
    /\ xs # arg

\* C4: a live collection is sorted ascending by t in every reachable state:
\* adjacent entries satisfy xs[i].t <= xs[i+1].t.
C4_AlwaysSorted == status = "live" => IsSorted(xs)

(***************************************************************************)
(* Claims about Sphere::intersect (checked under SpecSphere)               *)
(***************************************************************************)
\* The quadratic of the last intersect call.
CallQuadratic == Quadratic(TransformInverse(sphere.transform).m, arg)

\* What C5 promises of the result res when the discriminant is d.
ZeroOrTwoSorted(d) ==
    /\ res.ok
    /\ (d < 0) <=> (res.seq = <<>>)
    /\ res.seq # <<>> => Len(res.seq) = 2 /\ FLe(res.seq[1].t, res.seq[2].t)
    /\ d = 0 => Len(res.seq) = 2 /\ res.seq[1].t = res.seq[2].t

\* C5 as stated: for every ray with a non-zero direction and every sphere with
\* an invertible transform, intersect returns no intersection exactly when the
\* discriminant is negative, and otherwise exactly two with xs[0].t <= xs[1].t,
\* of equal t when the discriminant is 0.
C5_NonZeroDirection ==
    (/\ op = "intersect"
     /\ arg.direction # NewVector(0, 0, 0)
     /\ IsInvertible(sphere.transform, 4))
        => ZeroOrTwoSorted(Discriminant(CallQuadratic))

\* C5 as amended: the same for every ray whose object-space direction has a
\* squared length a = d . d that is not 0 as computed (it is 0 for the zero
\* direction, and underflows to 0 for a short one).
C5_NonZeroSquaredLength ==
    (/\ op = "intersect"
     /\ IsInvertible(sphere.transform, 4)
     /\ CallQuadratic.a # 0)
        => ZeroOrTwoSorted(Discriminant(CallQuadratic))

\* A tangent ray: discriminant 0, two intersections at the same t.
C5_Witness ==
    /\ op = "intersect"
    /\ IsInvertible(sphere.transform, 4)
    /\ CallQuadratic.a # 0
    /\ Discriminant(CallQuadratic) = 0
    /\ res.ok
    /\ Len(res.seq) = 2
    /\ res.seq[1].t = res.seq[2].t

(***************************************************************************)
(* Claims about World (checked under SpecWorld)                            *)
(***************************************************************************)
\* body.intersect(ray) of body k of the world, for the ray of the last call
PerBody(k) == SphereIntersect(world.bodies[k], arg)

\* The sum over the bodies of the world of f[k].
SumOverBodies(f) == SumTo([k \in 0..(Len(world.bodies) - 1) |-> f[k + 1]], 0, Len(world.bodies))

\* C6: World::intersect(ray) returns one collection whose length is the sum of
\* the lengths of the bodies' intersect(ray) results, that holds each of those
\* intersections (as often as the bodies yield it), and that is sorted
\* ascending by t across the bodies.
C6_CombinedAndSorted ==
    op = "intersect" =>
        /\ res.ok <=> (\A k \in 1..Len(world.bodies) : PerBody(k).ok)
        /\ res.ok =>
              /\ Len(res.seq) = SumOverBodies([k \in 1..Len(world.bodies) |-> Len(PerBody(k).seq)])
              /\ \A k \in 1..Len(world.bodies) : \A e \in Range(PerBody(k).seq) :
                    Count(e, res.seq) =
                        SumOverBodies([j \in 1..Len(world.bodies) |-> Count(e, PerBody(j).seq)])
              /\ IsSorted(res.seq)

\* Two bodies whose t ranges interleave: the second body's two intersections
\* lie between the first body's.
C6_Witness ==
    /\ op = "intersect"
    /\ res.ok
    /\ Len(world.bodies) = 2
    /\ Len(res.seq) = 4
    /\ res.seq[1].body = world.bodies[1]
    /\ res.seq[2].body = world.bodies[2]
    /\ res.seq[3].body = world.bodies[2]
    /\ res.seq[4].body = world.bodies[1]
    /\ res.seq[1].t.v < res.seq[2].t.v
    /\ res.seq[3].t.v < res.seq[4].t.v

\* self.intersect(ray) and xs.hit() of the last color_at call
CallIntersect == WorldIntersect(world, arg)
CallHit == Hit(CallIntersect.seq)

\* C7: color_at(ray) returns black, without failing, whenever intersect(ray)
\* has no hit: the ray misses every body, or every intersection has t <= 0.
C7_NoHitIsBlack ==
    (op = "color_at" /\ CallIntersect.ok /\ CallHit = NoHit)
        => res.ok /\ res.color = Black

\* Every intersection is behind the ray's origin, and the world has no light.
C7_Witness ==
    /\ op = "color_at"
    /\ CallIntersect.ok
    /\ CallIntersect.seq # <<>>
    /\ \A j \in 1..Len(CallIntersect.seq) : LeZero(CallIntersect.seq[j].t)
    /\ world.lights = <<>>
    /\ res.ok
    /\ res.color = Black

\* C8: color_at consults only lights[0]: a world with the same bodies and the
\* same first light returns the same for the same ray, whatever its other lights.
C8_OnlyFirstLight ==
    op = "color_at" =>
        \A w2 \in Worlds :
            (/\ w2.bodies = world.bodies
             /\ w2.lights # <<>>
             /\ world.lights # <<>>
             /\ w2.lights[1] = world.lights[1])
                => ColorAt(w2, arg) = res

\* A lit hit in a world whose second light would give another colour.
C8_Witness ==
    /\ op = "color_at"
    /\ res.ok
    /\ CallHit # NoHit
    /\ Len(world.lights) = 2
    /\ ColorAt(NewWorld(world.bodies, <<world.lights[2]>>), arg) # res

\* C9: color_at makes no shadow test: for a ray with a hit, the colour returned
\* is the hit body's material lighting in the Clear state at the hit's computed
\* position, eye and normal, and it is the colour returned by the world of the
\* hit body alone, in which no other body lies between the hit and the light.
C9_NoShadowTest ==
    (op = "color_at" /\ CallIntersect.ok /\ CallHit # NoHit /\ world.lights # <<>>)
        => /\ res.ok
           /\ res.color = LightingAt(MaterialOf(CallHit.val.body), world.lights[1],
                                     Computed(CallHit.val), "Clear")
           /\ res = ColorAt(NewWorld(<<CallHit.val.body>>, world.lights), arg)

\* A hit whose point has another body between it and the first light, where
\* the Shadow state would give another colour.
C9_Witness ==
    /\ op = "color_at"
    /\ res.ok
    /\ CallHit # NoHit
    /\ world.lights # <<>>
    /\ ShadowTest(world, Computed(CallHit.val).position, world.lights[1]).shadowed
    /\ ShadowTest(world, Computed(CallHit.val).position, world.lights[1]).by # CallHit.val.body
    /\ res.color # LightingAt(MaterialOf(CallHit.val.body), world.lights[1],
                              Computed(CallHit.val), "Shadow")

(***************************************************************************)
(* Claims about Phong::lighting (checked under SpecLight)                  *)
(***************************************************************************)
\* C10: in the Shadow state lighting returns exactly the ambient term, the
\* material's colour times the light's intensity, scaled by the material's
\* ambient: whatever the eye vector, the normal vector and the material's
\* diffuse, specular and shininess are.
C10_ShadowIsAmbient ==
    (op = "lighting" /\ arg.shadow_state = "Shadow") =>
        /\ res = ColorScale(ColorMul(phong.color, arg.light.intensity), phong.ambient)
        /\ \A e \in LightEyes, n \in LightNormals, m2 \in LightMaterials :
              (m2.color = phong.color /\ m2.ambient = phong.ambient)
                  => Lighting(m2, arg.light, arg.position, e, n, "Shadow") = res

\* A call in the Shadow state where the Clear state gives another colour.
C10_Witness ==
    /\ op = "lighting"
    /\ arg.shadow_state = "Shadow"
    /\ Lighting(phong, arg.light, arg.position, arg.eye, arg.normal, "Clear") # res

\* light_vector.dot(&normal_vector) of the last lighting call
CallLightDotNormal ==
    Dot(Normalize(PointSub(arg.light.position, arg.position)), arg.normal)

\* C11: in the Clear state, when dot(light_vector, normal) < 0 (the light is
\* behind the surface) the diffuse and the specular contribution are black:
\* lighting returns the ambient term alone.
C11_BehindIsAmbient ==
    (op = "lighting" /\ arg.shadow_state = "Clear" /\ LtZero(CallLightDotNormal))
        => res = ColorScale(ColorMul(phong.color, arg.light.intensity), phong.ambient)

\* A Clear call with the light behind the surface and a material that has a
\* diffuse term.
C11_Witness ==
    /\ op = "lighting"
    /\ arg.shadow_state = "Clear"
    /\ LtZero(CallLightDotNormal)
    /\ phong.diffuse > 0
    /\ res = ColorScale(ColorMul(phong.color, arg.light.intensity), phong.ambient)

(***************************************************************************)
(* Claims about Intersection::computed (checked under SpecIntersection)    *)
(***************************************************************************)
\* a >= 0.0: false for NaN
GeZero(a) == a # FNaN /\ a >= 0

\* body.normal_at(position) of the last computed() call
CallSurface == NormalAt(arg.body, res.position)

\* C12: computed() sets eye to the negated ray direction and turns the normal
\* to the eye: if dot(body.normal_at(position), eye) < 0 the normal is the
\* negated surface normal and the orientation Inside, otherwise the normal is
\* the surface normal and the orientation Outside; so dot(normal, eye) >= 0 in
\* every result.
C12_NormalFacesEye ==
    op = "computed" =>
        /\ res.eye = VecNeg(arg.ray.direction)
        /\ IF LtZero(Dot(CallSurface, res.eye))
           THEN res.normal = VecNeg(CallSurface) /\ res.orientation = "Inside"
           ELSE res.normal = CallSurface /\ res.orientation = "Outside"
        /\ GeZero(Dot(res.normal, res.eye))

\* The same, for the results whose surface normal is a vector of numbers.
C12_NormalFacesEyeUnlessNaN ==
    (op = "computed" /\ Dot(CallSurface, CallSurface) # FNaN) => C12_NormalFacesEye

(***************************************************************************)
(* Claims about Points and Vectors (checked under SpecTuple)               *)
(***************************************************************************)
\* C17: every Point value has w = 1 and every Vector value has w = 0, whatever
\* sequence of operations made it (Point - Point, Point + Vector,
\* Vector +/- Vector, scalar multiplication, scalar division, negation).
C17_WIdentifiesType ==
    op # "none" =>
        /\ res.kind = "Point" => res.data[3] = One
        /\ res.kind = "Vector" => res.data[3] = 0

\* The Vector half of it.
C17_VectorWIsZero == (op # "none" /\ res.kind = "Vector") => res.data[3] = 0

\* C18: normalize() of a zero-length vector fails; it returns no vector.
C18_NormalizeZeroFails ==
    (op = "normalize" /\ Magnitude(arg[1]) = 0) => res = Panic

(***************************************************************************)
(* Claims about matrices (checked under SpecMatrix)                        *)
(***************************************************************************)
\* C13: inverse() of a matrix that is_invertible() rejects panics; it returns
\* no matrix, neither the identity nor any other.
C13_SingularInversePanics ==
    (op = "inverse" /\ ~IsInvertible(arg.m, arg.n)) => res = Panic

\* A matrix without a zero row or repeated unit rows only: singular because
\* its rows are dependent.
C13_Witness ==
    /\ op = "inverse" /\ arg.n = 4
    /\ ~IsInvertible(arg.m, arg.n)
    /\ \A i \in 0..3 : arg.m[i][i] = One /\ arg.m[i][(i + 1) % 4] = One
    /\ res = Panic

\* m == Identity within the tolerance, entry by entry (Matrix::fuzzy_eq)
IsIdentity(m, n) == \A i, j \in 0..(n - 1) : FuzzyEq(m[i][j], Identity(n)[i][j])

\* cofactor(i, j) / det is a whole number of units for every entry: the
\* entries of the inverse are then the numbers f64 holds to within its
\* rounding, which the tolerance absorbs.
ExactQuotients(m, n) ==
    \A i, j \in 0..(n - 1) : (Cofactor(m, n, i, j) * Scale) % Abs(Determinant(m, n)) = 0

\* The transpose of the cofactors: inverse() before the division.
Adjugate(m, n) ==
    Array([j \in 0..(n - 1) |-> Array([i \in 0..(n - 1) |-> Cofactor(m, n, i, j)])])

\* det * identity
ScaledIdentity(d, n) ==
    Array([i \in 0..(n - 1) |-> Array([j \in 0..(n - 1) |-> IF i = j THEN d ELSE 0])])

\* m * adj and adj * m are det * identity, and inv * m and m * inv are the
\* identity where inv holds the exact quotients.
InverseLaws(m, n, inv, adj, det) ==
    /\ MatMul(m, adj, n) = ScaledIdentity(det, n)
    /\ MatMul(adj, m, n) = ScaledIdentity(det, n)
    /\ (\A i, j \in 0..(n - 1) : (adj[j][i] * Scale) % Abs(det) = 0) =>
           /\ IsIdentity(MatMul(inv, m, n), n)
           /\ IsIdentity(MatMul(m, inv, n), n)

\* C14: for every invertible m, m.inverse() * m and m * m.inverse() are the
\* identity within the tolerance; equivalently m times the transposed
\* cofactors is determinant * identity.
C14_InverseTimesSelf ==
    (op = "inverse" /\ res # Panic) =>
        InverseLaws(arg.m, arg.n, res, Adjugate(arg.m, arg.n), Determinant(arg.m, arg.n))

C14_Witness ==
    /\ op = "inverse" /\ res # Panic /\ arg.n = 4
    /\ ExactQuotients(arg.m, arg.n)
    /\ arg.m # Transpose(arg.m, 4)
    /\ Determinant(arg.m, 4) \notin {One, -One}
    /\ IsIdentity(MatMul(res, arg.m, 4), 4)
    /\ IsIdentity(MatMul(arg.m, res, 4), 4)

\* The permutations of 0..n-1 and their signs.
PermutationsOf(n) ==
    {f \in [0..(n - 1) -> 0..(n - 1)] : \A i, j \in 0..(n - 1) : f[i] = f[j] => i = j}
Inversions(f, n) ==
    Cardinality({ij \in (0..(n - 1)) \X (0..(n - 1)) : ij[1] < ij[2] /\ f[ij[1]] > f[ij[2]]})
Sign(f, n) == IF Inversions(f, n) % 2 = 0 THEN 1 ELSE -1

RECURSIVE ProductTo(_, _, _, _)
\* The product of the whole numbers m[i][f[i]] / One, i in k..n-1.
ProductTo(m, f, k, n) ==
    IF k >= n THEN 1 ELSE (m[k][f[k]] \div One) * ProductTo(m, f, k + 1, n)

RECURSIVE SumOver(_, _, _)
SumOver(S, m, n) ==
    IF S = {} THEN 0
    ELSE LET f == CHOOSE g \in S : TRUE
         IN Sign(f, n) * ProductTo(m, f, 0, n) + SumOver(S \ {f}, m, n)

\* The reference determinant: the sum over the permutations, in whole numbers.
PermutationSum(m, n) == SumOver(PermutationsOf(n), m, n)

\* C15: the determinant of a 3x3 or 4x4 matrix is the sum over i of
\* a[0][i] * cofactor(0, i), the cofactor being the minor with the sign
\* (-1)^(r+c) and the minor the determinant of the submatrix, down to
\* ad - bc for 2x2; it agrees with the permutation-sum determinant.
C15_DeterminantIsPermutationSum ==
    op = "determinant" =>
        /\ arg.n > 2 =>
              res = SumTo([i \in 0..(arg.n - 1) |->
                              FMul(arg.m[0][i],
                                   (IF i % 2 = 0 THEN 1 ELSE -1)
                                     * Determinant(Submatrix(arg.m, arg.n, 0, i), arg.n - 1))],
                          0, arg.n)
        /\ arg.n = 2 =>
              res = FMul(arg.m[0][0], arg.m[1][1]) - FMul(arg.m[0][1], arg.m[1][0])
        /\ res = One * PermutationSum(arg.m, arg.n)

\* A 4x4 determinant to which odd permutations contribute.
C15_Witness ==
    /\ op = "determinant" /\ arg.n = 4
    /\ \A i \in 0..3 : arg.m[i][i] = One /\ arg.m[i][(i + 1) % 4] = 2 * One
    /\ res = -15 * One

\* C16: composed transforms apply right to left: (t * r * s) * p is
\* t * (r * (s * p)), for points and for vectors.
C16_ComposedIsRightToLeft ==
    op = "transform" =>
        \A i \in 0..3 :
            FuzzyEq(res[i],
                    MatMulTuple(arg.t, MatMulTuple(arg.r, MatMulTuple(arg.s, arg.p)))[i])

\* A translation after a quarter turn after a scaling, of a point: the other
\* order of the three gives another point.
C16_Witness ==
    /\ op = "transform"
    /\ arg.t = Translate(One, -One, 2 * One)
    /\ arg.s = Scaling(2 * One, One, -One)
    /\ arg.r \notin {arg.t, arg.s}
    /\ arg.p[3] = One
    /\ res = MatMulTuple(arg.t, MatMulTuple(arg.r, MatMulTuple(arg.s, arg.p)))
    /\ res # MatMulTuple(arg.s, MatMulTuple(arg.r, MatMulTuple(arg.t, arg.p)))

RECURSIVE RenderSequential(_, _)
\* The same loop run by one thread, item after item.
RenderSequential(items, c) ==
    IF items = <<>> THEN c
    ELSE RenderSequential(Tail(items),
            WritePixel(c, Head(items)[2], Head(items)[1],
                       ColorAt(RenderWorld,
                               RayForPixel(RenderCamera, Head(items)[2], Head(items)[1])).color))

\* C19: the workers compute colours without the lock and write under it; in
\* every interleaving, when the loop has finished every (col, row) has been
\* written exactly once and holds world.color_at(camera.ray_for_pixel(col,
\* row)): the image of a sequential render.
C19_RenderIsSequentialImage ==
    /\ \A w \in Workers : (worker[w].pc \in {"locked", "written"}) <=> (lock = w)
    /\ done =>
        /\ \A p \in DOMAIN writes : writes[p] = 1
        /\ \A p \in DOMAIN writes :
              ReadPixel(canvas, p[1], p[2])
                  = ColorAt(world, RayForPixel(RenderCamera, p[1], p[2])).color
        /\ canvas = RenderSequential(RenderItems, NewCanvas(CanvasWidth, CanvasHeight))

\* The loop has finished on an image with pixels of different colours, none
\* the black of the new canvas.
C19_Witness ==
    /\ done
    /\ progress = CanvasWidth * CanvasHeight
    /\ \A i \in DOMAIN canvas.pixels : canvas.pixels[i] # Black
    /\ \E i, j \in DOMAIN canvas.pixels : canvas.pixels[i] # canvas.pixels[j]
    /\ ReadPixel(canvas, 0, CanvasHeight - 1) # ReadPixel(canvas, CanvasWidth - 1, 0)

(***************************************************************************)
(* Submatrix and scalar multiple                                           *)
(***************************************************************************)
\* C25: for an n x n matrix, n 3 or 4, and remove_row, remove_col below n,
\* submatrix is the (n-1) x (n-1) matrix whose entry (i, j) is the source
\* entry (i + [i >= remove_row], j + [j >= remove_col]).
C25_SubmatrixRemovesRowAndColumn ==
    (op = "submatrix") =>
        /\ DOMAIN res = 0..(arg.n - 2)
        /\ \A i \in 0..(arg.n - 2) :
            /\ DOMAIN res[i] = 0..(arg.n - 2)
            /\ \A j \in 0..(arg.n - 2) :
                  res[i][j] = arg.m[IF i >= arg.rr THEN i + 1 ELSE i]
                                   [IF j >= arg.rc THEN j + 1 ELSE j]

\* A 4 x 4 matrix of distinct entries with an inner row and another inner
\* column removed.
C25_Witness ==
    /\ op = "submatrix" /\ arg.n = 4 /\ arg.rr = 1 /\ arg.rc = 2
    /\ \A i, j, k, l \in 0..3 : (arg.m[i][j] = arg.m[k][l]) => (i = k /\ j = l)
    /\ res[1][2] = arg.m[2][3]

\* C29: m * rhs is the matrix whose entry (i, j) is rhs times m[i][j].
C29_ScalarMultipleOfEntries ==
    (op = "scale") =>
        \A i, j \in 0..(arg.n - 1) : res[i][j] = FMul(arg.rhs, arg.m[i][j])

(***************************************************************************)
(* The normal of a sphere is a Vector                                      *)
(***************************************************************************)
\* C26: normal_at returns a Vector whose w is 0 for every invertible
\* transform, those with a translation part included.
C26_NormalWIsZero ==
    (op = "normal_at" /\ res # Panic) => res[3] = 0

\* A translated sphere: the product of the transposed inverse with the object
\* normal has a fourth component other than 0, and the normal returned has 0.
C26_Witness ==
    /\ op = "normal_at" /\ res # Panic
    /\ sphere.transform = Translate(5 * One, 0, 0)
    /\ NormalFromWorldNormal(TransformInverse(sphere.transform).m, arg)[3] \notin {0, FNaN}
    /\ res = NewVector(One, 0, 0)

(***************************************************************************)
(* color_at in a world without lights (checked under SpecWorld)            *)
(***************************************************************************)
\* C27: in a world whose light list is empty, color_at(ray) panics at
\* self.lights[0] if and only if the ray has a hit; with no hit it returns
\* black.  (The ray has a hit or none once intersect(ray) has returned.)
C27_NoLightPanicsIffHit ==
    (op = "color_at" /\ world.lights = <<>> /\ CallIntersect.ok) =>
        /\ (~res.ok) <=> (CallHit # NoHit)
        /\ (CallHit = NoHit) => (res.ok /\ res.color = Black)

\* A ray that hits a body of a world without lights: the call panics.
C27_Witness ==
    /\ op = "color_at" /\ world.lights = <<>>
    /\ CallIntersect.ok /\ CallHit # NoHit
    /\ ~res.ok

(***************************************************************************)
(* Claims about the Canvas (checked under SpecCanvas and SpecCanvasAny)    *)
(***************************************************************************)
\* The pixels of the canvas: 0 <= x < width, 0 <= y < height
CanvasPixels == (0..(canvas.width - 1)) \X (0..(canvas.height - 1))

\* C21: a new Canvas reads black at every (x, y); after any sequence of
\* in-range write_pixel calls, read_pixel(x, y) is the colour of the last
\* write to (x, y), or black if there was none, and a read_pixel call returns
\* it; width and height stay as they were made.
C21_ReadsLastWrite ==
    /\ \A p \in CanvasPixels :
          ReadPixel(canvas, p[1], p[2]) =
              IF p \in DOMAIN lastWrite THEN lastWrite[p] ELSE Black
    /\ (op = "read_pixel") =>
          res = IF <<arg.x, arg.y>> \in DOMAIN lastWrite
                THEN lastWrite[<<arg.x, arg.y>>] ELSE Black
    /\ <<canvas.width, canvas.height>> \in CanvasSizes
    /\ DOMAIN canvas.pixels = 0..(canvas.width * canvas.height - 1)

\* A pixel written twice reads the second colour beside a pixel written once
\* and a pixel never written.
C21_Witness ==
    /\ op = "read_pixel" /\ arg = [x |-> 1, y |-> 1]
    /\ res = NewColor(One, One, One)
    /\ canvas.width = 2 /\ canvas.height = 2
    /\ ReadPixel(canvas, 0, 1) = NewColor(One, 0, 0)
    /\ ReadPixel(canvas, 1, 0) = Black
    /\ ReadPixel(canvas, 0, 0) = NewColor(One, 0, 0)

\* C28: for all x and y, in range or not, write_pixel(x, y, c) fails or
\* changes only the pixel at (x, y): no other pixel of the canvas changes.
C28_WriteChangesOnlyItsPixel ==
    [][(op' = "write_pixel" /\ res' # Panic) =>
          \A p \in CanvasPixels :
              (p # <<arg'.x, arg'.y>>) =>
                  ReadPixel(canvas', p[1], p[2]) = ReadPixel(canvas, p[1], p[2])]_vars

(***************************************************************************)
(* Claims about bytes (checked under SpecBytes)                            *)
(***************************************************************************)
\* The whole number nearest to 255 * clamp(c, 0, 1), a half going up.
NearestByte(c) ==
    LET exact == 255 * F64Clamp(c, 0, One)
    IN CHOOSE b \in 0..255 : -Scale < 2 * (b * Scale - exact) /\ 2 * (b * Scale - exact) <= Scale

RECURSIVE AfterLines(_, _)
\* d without its first n lines.
AfterLines(d, n) ==
    IF n = 0 \/ d = <<>> THEN d
    ELSE AfterLines(Tail(d), IF Head(d) = "\n" THEN n - 1 ELSE n)

RECURSIVE SplitAt(_, _, _)
\* The runs of characters of d from position start on that lie between
\* occurrences of sep (a run may be empty).
SplitAt(d, start, sep) ==
    IF start > Len(d) THEN <<>>
    ELSE LET ends == {i \in start..Len(d) : d[i] = sep}
         IN IF ends = {} THEN <<SubSeq(d, start, Len(d))>>
            ELSE LET e == CHOOSE i \in ends : \A j \in ends : i <= j
                 IN <<SubSeq(d, start, e - 1)>> \o SplitAt(d, e + 1, sep)

\* The lines of d.
SplitLines(d) == SplitAt(d, 1, "\n")

RECURSIVE NumberOf(_)
\* The number a run of decimal digits stands for.
NumberOf(token) ==
    IF token = <<>> THEN 0
    ELSE 10 * NumberOf(SubSeq(token, 1, Len(token) - 1))
            + (CHOOSE v \in 0..9 : Digits[v + 1] = token[Len(token)])

\* The space-separated numbers of a line, in order.
NumbersOfLine(line) ==
    LET tokens == SelectSeq(SplitAt(line, 1, " "), LAMBDA t : t # <<>>)
    IN [k \in 1..Len(tokens) |-> NumberOf(tokens[k])]

RECURSIVE ReadNumbers(_, _)
\* The whitespace-separated numbers of the first j lines, in order.
ReadNumbers(lines, j) ==
    IF j = 0 THEN <<>> ELSE ReadNumbers(lines, j - 1) \o NumbersOfLine(lines[j])

RECURSIVE BytesFrom(_, _)
\* The r, g, b bytes of the pixels from index k on, in row-major order.
BytesFrom(pixels, k) ==
    IF k \notin DOMAIN pixels THEN <<>>
    ELSE ToBytes(pixels[k]) \o BytesFrom(pixels, k + 1)

\* The four properties of pixel data for the canvas c.
PixelDataWellFormed(c, data, lines) ==
    /\ \A l \in 1..Len(lines) : Len(lines[l]) <= 70
    /\ \A l \in 1..Len(lines) :
          lines[l] # <<>> => (lines[l][1] # " " /\ lines[l][Len(lines[l])] # " ")
    /\ data # <<>> => data[Len(data)] = "\n"
    /\ \A r \in 1..c.height :
          \E j \in 1..Len(lines) : Len(ReadNumbers(lines, j)) = 3 * c.width * r
    /\ ReadNumbers(lines, Len(lines)) = BytesFrom(c.pixels, 0)

\* C23: in the pixel data of to_ppm no line is longer than 70 characters, no
\* line starts or ends with a space, a newline follows the last component of
\* every canvas row, and the numbers read in order are the r, g, b bytes of
\* the pixels in row-major order.
C23_PixelDataWrapsAt70 ==
    (op \in {"to_ppm", "canvas_to_ppm"} /\ res # Panic) =>
        PixelDataWellFormed(canvas, AfterLines(res, 3), SplitLines(AfterLines(res, 3)))

\* A canvas row that is wrapped, with a line of exactly 70 characters.
C23_Witness ==
    /\ op = "to_ppm" /\ res # Panic
    /\ canvas.height = 2
    /\ LET lines == SplitLines(AfterLines(res, 3))
       IN /\ Len(lines) > canvas.height
          /\ \E l \in 1..Len(lines) : Len(lines[l]) = 70

(***************************************************************************)
(* Claims about the Animator (checked under SpecAnimator)                  *)
(***************************************************************************)
\* The closure was called once per frame, with current = 0, 1, ..,
\* frame_count - 1 in this order, and each scale read only breakpoints that
\* exist.
FramesInOrderAndReadsInRange ==
    /\ Len(res) = arg.frame_count
    /\ \A k \in 1..Len(res) :
          /\ res[k].current = k - 1
          /\ res[k].scaled.reads \subseteq 0..(Len(arg.bs) - 1)
          /\ res[k].scaled.ok

\* C30 as stated: animate calls the closure once per frame with current =
\* 0, .., frame_count - 1 in ascending order; for every breakpoint list of
\* length n >= 2 the scale of each frame reads indexes within 0..n-1 only, and
\* the scale of frame 0 is bs[0].
C30_ScaleOfFirstFrameIsFirstBreakpoint ==
    (op = "animate" /\ Len(arg.bs) >= 2) =>
        /\ FramesInOrderAndReadsInRange
        /\ (arg.frame_count > 0) => res[1].scaled.value = arg.bs[1]

\* C30 amended: the same, the scale of frame 0 being bs[0] whenever
\* bs[1] - bs[0] is finite.
C30_FirstBreakpointIfDifferenceFinite ==
    (op = "animate" /\ Len(arg.bs) >= 2) =>
        /\ FramesInOrderAndReadsInRange
        /\ (arg.frame_count > 0 /\ ESub(arg.bs[2], arg.bs[1]) \notin {FInf, -FInf, FNaN})
              => res[1].scaled.value = arg.bs[1]

\* The last of several frames reads the last two of three breakpoints, and
\* the first frame returned bs[0].
C30_Witness ==
    /\ op = "animate" /\ arg.frame_count = MaxFrames /\ Len(arg.bs) = 3
    /\ arg.bs[1] = One /\ arg.bs[2] = 6283
    /\ Len(res) = MaxFrames
    /\ res[MaxFrames].scaled.reads = {1, 2}
    /\ res[1].scaled.value = One

(***************************************************************************)
(* Claims about termination (checked under SpecStepsFair)                  *)
(***************************************************************************)
\* C24: a color computation that was begun ends, and so does every
\* submatrix on its way: each of the per-body iteration, the sort, the hit
\* scan and the two while loops of submatrix is left after finitely many
\* passes, by a return or by a panic.
C24_ColorAtTerminates == (pc # "none") ~> (pc \in {"returned", "panicked"})

\* A color_at has returned the color of a hit that the scan found after two
\* intersections behind the ray's origin, among four that two bodies gave and
\* the sort ordered; it is the color the whole computation gives.
C24_Witness ==
    /\ op = "color_at" /\ pc = "returned"
    /\ Len(world.bodies) = 2
    /\ locals.hit.some /\ locals.hit.idx = 3
    /\ res = ColorAt(world, arg)

====
